---- MODULE Spec2Model ----
(***************************************************************************)
(* Model of sshm's interactive remote-file-transfer subsystem:             *)
(*   - remoteBrowserModel   (internal/ui remote browser, its Update loop)  *)
(*   - quickTransferModel   (the quick-transfer wizard)                    *)
(*   - Model.Update         (main UI routing of wizard/browser messages)   *)
(*   - transfer.RunningTransfer / StartTransfer / Cancel                   *)
(* The bubbletea runtime is modelled as a bag of in-flight items: commands *)
(* returned by Update run in goroutines of their own and post their result *)
(* message to the event loop, which handles one message at a time, in any  *)
(* order relative to other commands and to key presses.                    *)
(***************************************************************************)
EXTENDS Bags, FiniteSets, Integers, Sequences, TLC

(***************************************************************************)
(* Bounds                                                                  *)
(***************************************************************************)
\* longest search query that is typed
MaxQueryLen == 3
\* most items (goroutines, ticks, messages) in flight at once
MaxInflight == 2
\* most remoteBrowserModel objects created in one run
MaxBrowsers == 2
\* most remote operations (connect, list, search) that fail in one run
MaxFaults == 1
\* RunningTransfer objects created
MaxTransfers == 2
\* quickTransferModel objects created
MaxWizards == 2
\* RecordTransfer calls made on one HistoryManager
MaxRecords == 12

(***************************************************************************)
(* Strings are sequences of one-character strings.                         *)
(***************************************************************************)
ToLowerChar(c) ==
    CASE c = "A" -> "a"
      [] c = "B" -> "b"
      [] OTHER -> c

ToLower(s) == [i \in 1..Len(s) |-> ToLowerChar(s[i])]

HasPrefix(s, p) == Len(p) <= Len(s) /\ SubSeq(s, 1, Len(p)) = p

Contains(s, p) == \E i \in 0..(Len(s) - Len(p)) : SubSeq(s, i + 1, i + Len(p)) = p

\* byte order of the characters that occur in the model
CharOrd(c) ==
    CASE c = "." -> 46
      [] c = "/" -> 47
      [] c = "A" -> 65
      [] c = "B" -> 66
      [] c = "a" -> 97
      [] c = "b" -> 98
      [] c = "c" -> 99
      [] c = "h" -> 104
      [] c = "~" -> 126
      [] OTHER -> 0

RECURSIVE StrLess(_, _)
StrLess(s, t) ==
    IF t = <<>> THEN FALSE
    ELSE IF s = <<>> THEN TRUE
    ELSE IF s[1] # t[1] THEN CharOrd(s[1]) < CharOrd(t[1])
    ELSE StrLess(Tail(s), Tail(t))

(***************************************************************************)
(* The remote host: a fixed file tree, in the order find(1) walks it.      *)
(***************************************************************************)
RootDir == <<"/">>
HomeDir == <<"/", "h">>
Tilde == <<"~">>

RemoteFile(name, path, isDir) == [Name |-> name, Path |-> path, IsDir |-> isDir]

FsEntries ==
    << RemoteFile(<<"h">>, <<"/", "h">>, TRUE),
       RemoteFile(<<"B", "a", "a", "a">>, <<"/", "h", "/", "B", "a", "a", "a">>, FALSE),
       RemoteFile(<<".", "a">>, <<"/", "h", "/", ".", "a">>, FALSE),
       RemoteFile(<<"a", "a", "a">>, <<"/", "h", "/", "a", "a", "a">>, TRUE),
       RemoteFile(<<"a", "a", "a", "b">>,
                  <<"/", "h", "/", "a", "a", "a", "/", "a", "a", "a", "b">>, FALSE),
       RemoteFile(<<"a", "a", "a">>,
                  <<"/", "h", "/", "a", "a", "a", "/", "a", "a", "a">>, TRUE) >>

\* index of the last "/" of a path (0 when there is none)
LastSlash(path) ==
    IF \E i \in 1..Len(path) : path[i] = "/"
    THEN CHOOSE i \in 1..Len(path) :
            path[i] = "/" /\ \A j \in (i + 1)..Len(path) : path[j] # "/"
    ELSE 0

\* filepath.Dir on a clean path
Dir(path) ==
    LET i == LastSlash(path) IN
    IF i = 0 THEN <<".">>
    ELSE IF i = 1 THEN RootDir
    ELSE SubSeq(path, 1, i - 1)

\* filepath.Base on a clean path
Base(path) ==
    LET i == LastSlash(path) IN
    IF path = RootDir THEN RootDir ELSE SubSeq(path, i + 1, Len(path))

\* filepath.Join(dir, name)
Join(dir, name) == IF dir = RootDir THEN dir \o name ELSE dir \o <<"/">> \o name

\* the entries directly inside the directory path
RECURSIVE ChildrenFrom(_, _)
ChildrenFrom(path, i) ==
    IF i > Len(FsEntries) THEN <<>>
    ELSE IF Dir(FsEntries[i].Path) = path
         THEN <<FsEntries[i]>> \o ChildrenFrom(path, i + 1)
         ELSE ChildrenFrom(path, i + 1)

\* (variant) the less function comparing the names as they are spelled
ListLessCaseSensitive(fi, fj) ==
    IF fi.Name = <<".", ".">> THEN TRUE
    ELSE IF fj.Name = <<".", ".">> THEN FALSE
    ELSE IF fi.IsDir # fj.IsDir THEN fi.IsDir
    ELSE StrLess(fi.Name, fj.Name)

\* the less function ListDirectory sorts with
ListLess(fi, fj) ==
    IF fi.Name = <<".", ".">> THEN TRUE
    ELSE IF fj.Name = <<".", ".">> THEN FALSE
    ELSE IF fi.IsDir # fj.IsDir THEN fi.IsDir
    ELSE StrLess(ToLower(fi.Name), ToLower(fj.Name))

RECURSIVE ListInsert(_, _)
ListInsert(x, sorted) ==
    IF sorted = <<>> THEN <<x>>
    ELSE IF ListLess(x, sorted[1]) THEN <<x>> \o sorted
    ELSE <<sorted[1]>> \o ListInsert(x, Tail(sorted))

RECURSIVE ListSort(_)
ListSort(seq) ==
    IF seq = <<>> THEN <<>>
    ELSE ListInsert(seq[Len(seq)], ListSort(SubSeq(seq, 1, Len(seq) - 1)))

\* what ListDirectory makes of the lines ls printed for path: the parent
\* entry unless path is "/", the lines for "." and ".." skipped, then sorted
ListEntries(path, lines) ==
    LET parent == IF path # RootDir
                  THEN <<RemoteFile(<<".", ".">>, Dir(path), TRUE)>>
                  ELSE <<>>
        kept == SelectSeq(lines, LAMBDA l : l.Name \notin {<<".">>, <<".", ".">>})
        parsed == [i \in 1..Len(kept) |->
                      RemoteFile(kept[i].Name, Join(path, kept[i].Name), kept[i].IsDir)]
    IN  ListSort(parent \o parsed)

\* SFTPSession.ListDirectory on a usable session: "~" is the home directory
ListDirectory(path) ==
    LET p == IF HasPrefix(path, Tilde) THEN HomeDir \o Tail(path) ELSE path
    IN  ListEntries(p, ChildrenFrom(p, 1))

\* the characters QuickSearch strips from the pattern ("BQ" stands for the
\* backquote, which a TLA+ string cannot hold)
ShellMeta == {"'", "\"", ";", "|", "&", "$", "BQ"}

\* strings.ReplaceAll(str, old, "") for a one-character old
ReplaceAll(str, old) == SelectSeq(str, LAMBDA c : c # old)

\* (variant) only the two quotes are stripped
SanitizeQuotes(pattern) == ReplaceAll(ReplaceAll(pattern, "'"), "\"")

\* the pattern as QuickSearch puts it into the find command
Sanitize(pattern) ==
    ReplaceAll(ReplaceAll(ReplaceAll(ReplaceAll(ReplaceAll(ReplaceAll(ReplaceAll(
        pattern, "'"), "\""), ";"), "|"), "&"), "$"), "BQ")

\* most results one QuickSearch returns
SearchLimit == 30

\* SFTPSession.QuickSearch on a usable session: find under startDir by name
QuickSearch(pattern, startDir, limit) ==
    LET pat == ToLower(Sanitize(pattern))
        root == IF HasPrefix(startDir, Tilde) THEN HomeDir \o Tail(startDir) ELSE startDir
        under(f) == f.Path = root \/ HasPrefix(f.Path, Join(root, <<>>))
        found == SelectSeq(FsEntries,
                           LAMBDA f : under(f) /\ Contains(ToLower(f.Name), pat))
    IN  IF Len(found) > limit THEN SubSeq(found, 1, limit) ELSE found

(***************************************************************************)
(* State                                                                   *)
(***************************************************************************)
VARIABLES
    browsers,           \* the remoteBrowserModel objects, by instance
    nextBrowser,        \* number of remoteBrowserModel objects created
    inflight,           \* bag: goroutines still running and messages not yet handled
    crashed,            \* a handler panicked (index out of range)
    faults,             \* number of remote operations that have failed
    quit,               \* the standalone program returned tea.Quit
    transfers,          \* the RunningTransfer objects, by instance
    nextTransfer,       \* number of RunningTransfer objects created
    wizards,            \* the quickTransferModel objects, by instance
    nextWizard,         \* number of quickTransferModel objects created
    viewMode,           \* Model.viewMode
    quickTransferForm,  \* Model.quickTransferForm: 0 (nil) or a wizard
    remoteBrowserForm,  \* Model.remoteBrowserForm: 0 (nil) or a browser
    history,            \* the HistoryManager objects and the history file
    applied,            \* the last function applied on its own, with its result
    lastEvent           \* (history) what the last step did, for the properties

transferVars == <<transfers, nextTransfer>>

uiVars == <<wizards, nextWizard, viewMode, quickTransferForm, remoteBrowserForm>>

vars == <<browsers, nextBrowser, inflight, crashed, faults, quit, transfers,
          nextTransfer, wizards, nextWizard, viewMode, quickTransferForm,
          remoteBrowserForm, history, applied, lastEvent>>

\* no function has been applied on its own
NotApplied == [fn |-> "none"]

(***************************************************************************)
(* In-flight items.  A "...Job" is a command whose goroutine has not       *)
(* finished; the other kinds are messages waiting for Update.  owner is    *)
(* the object whose method built the command (the m its closure captured); *)
(* rt is what m.runningTransfer was when a wait command was built.         *)
(***************************************************************************)
Item(kind, owner) ==
    [kind |-> kind, owner |-> owner, path |-> <<>>, query |-> <<>>,
     files |-> <<>>, err |-> "", selected |-> FALSE, mode |-> "", rt |-> 0]

Items(kinds) == {it \in BagToSet(inflight) : it.kind \in kinds}

One(it) == SetToBag({it})

\* room for the commands a handler returns
Room(cmd) == BagCardinality(inflight) + Cardinality(cmd) <= MaxInflight

(***************************************************************************)
(* remoteBrowserModel                                                      *)
(***************************************************************************)
BrowseFiles == "BrowseFiles"
BrowseDirectories == "BrowseDirectories"

\* session: "nil", or the state of the SFTPSession it points to
\* launches: (history) searches launched since searchQuery last changed
NewRemoteBrowser(startPath, mode) ==
    [currentDir |-> IF startPath = <<>> THEN Tilde ELSE startPath,
     files |-> <<>>, visibleFiles |-> <<>>, cursor |-> 0, selected |-> <<>>,
     err |-> "", loading |-> TRUE, mode |-> mode, session |-> "nil",
     searchMode |-> FALSE, searchQuery |-> <<>>, searchFiles |-> <<>>,
     showHidden |-> FALSE, pendingSearch |-> <<>>, searchTriggered |-> FALSE,
     launches |-> 0]

\* what Update returns: the model, the command (none or one), or a panic
Ret(b, cmd) == [b |-> b, cmd |-> cmd, panic |-> FALSE]
Panic(b) == [b |-> b, cmd |-> {}, panic |-> TRUE]

loadDirectory(id, path) == [Item("loadJob", id) EXCEPT !.path = path]

runSearch(id, b) == [Item("searchJob", id) EXCEPT !.query = b.searchQuery]

scheduleSearch(id, query) == [Item("searchDebounceMsg", id) EXCEPT !.query = query]

\* variant: the completion carries the name of the entry, not its path
remoteBrowserResultMsgNamed(id, path, selected) ==
    [Item("remoteBrowserResultMsg", id) EXCEPT !.path = Base(path), !.selected = selected]

remoteBrowserResultMsg(id, path, selected) ==
    [Item("remoteBrowserResultMsg", id) EXCEPT !.path = path, !.selected = selected]

\* SFTPSession.Close through m.session
CloseSession(b) == IF b.session # "nil" THEN [b EXCEPT !.session = "closed"] ELSE b

\* variant: the entries are filtered out of the list that is displayed
filterFilesDisplayed(b) ==
    IF b.showHidden THEN b
    ELSE [b EXCEPT !.visibleFiles =
            SelectSeq(b.visibleFiles,
                      LAMBDA f : f.Name = <<".", ".">> \/ ~HasPrefix(f.Name, <<".">>))]

filterFiles(b) ==
    IF b.showHidden THEN [b EXCEPT !.visibleFiles = b.files]
    ELSE [b EXCEPT !.visibleFiles =
            SelectSeq(b.files,
                      LAMBDA f : f.Name = <<".", ".">> \/ ~HasPrefix(f.Name, <<".">>))]

\* the shortest query that is searched
MinQueryLen == 3

ClampCursor(cursor, n) ==
    IF cursor >= n THEN (IF n - 1 < 0 THEN 0 ELSE n - 1) ELSE cursor

filterSearchResults(b) ==
    IF Len(b.searchQuery) < MinQueryLen THEN b
    ELSE LET query == ToLower(b.searchQuery)
             filtered == SelectSeq(b.searchFiles,
                            LAMBDA f : Contains(ToLower(f.Name), query)
                                       \/ Contains(ToLower(f.Path), query))
         IN  [b EXCEPT !.searchFiles = filtered,
                       !.cursor = ClampCursor(b.cursor, Len(filtered))]

\* (variant) the less function without the test for a name starting with
\* the query
SearchLessNoPrefix(query, fi, fj) ==
    LET nameI == ToLower(fi.Name)
        nameJ == ToLower(fj.Name)
    IN  IF (nameI = query) # (nameJ = query) THEN nameI = query
        ELSE IF Contains(nameI, query) # Contains(nameJ, query)
             THEN Contains(nameI, query)
        ELSE Len(fi.Path) < Len(fj.Path)

\* the less function of sortSearchResults
SearchLess(query, fi, fj) ==
    LET nameI == ToLower(fi.Name)
        nameJ == ToLower(fj.Name)
    IN  IF (nameI = query) # (nameJ = query) THEN nameI = query
        ELSE IF HasPrefix(nameI, query) # HasPrefix(nameJ, query)
             THEN HasPrefix(nameI, query)
        ELSE IF Contains(nameI, query) # Contains(nameJ, query)
             THEN Contains(nameI, query)
        ELSE Len(fi.Path) < Len(fj.Path)

RECURSIVE SearchInsert(_, _, _)
SearchInsert(query, x, sorted) ==
    IF sorted = <<>> THEN <<x>>
    ELSE IF SearchLess(query, x, sorted[1]) THEN <<x>> \o sorted
    ELSE <<sorted[1]>> \o SearchInsert(query, x, Tail(sorted))

\* sort.SliceStable: each element goes behind the ones it is not less than
RECURSIVE SearchSort(_, _)
SearchSort(query, seq) ==
    IF seq = <<>> THEN <<>>
    ELSE SearchInsert(query, seq[Len(seq)],
                      SearchSort(query, SubSeq(seq, 1, Len(seq) - 1)))

sortSearchResults(b) ==
    IF Len(b.searchFiles) = 0 \/ Len(b.searchQuery) < MinQueryLen THEN b
    ELSE [b EXCEPT !.searchFiles = SearchSort(ToLower(b.searchQuery), b.searchFiles)]

\* the query changes: the launch count of the history starts over
SetQuery(b, q) == [b EXCEPT !.searchQuery = q, !.launches = 0]

\* variant: the new listing is installed under the cursor as it stands
UpdateLoadedMsgKeepingCursor(id, b, msg) ==
    IF msg.err # ""
    THEN Ret([b EXCEPT !.loading = FALSE, !.err = msg.err], {})
    ELSE Ret(filterFiles([SetQuery(b, <<>>) EXCEPT
                            !.loading = FALSE, !.files = msg.files,
                            !.currentDir = msg.path, !.err = "",
                            !.searchMode = FALSE, !.searchFiles = <<>>]), {})

\* (variant) a failed load also gives up the session
UpdateLoadedMsgDroppingSession(id, b, msg) ==
    IF msg.err # ""
    THEN Ret([b EXCEPT !.loading = FALSE, !.err = msg.err, !.session = "nil"], {})
    ELSE Ret(filterFiles([SetQuery(b, <<>>) EXCEPT
                            !.loading = FALSE, !.files = msg.files,
                            !.currentDir = msg.path, !.cursor = 0, !.err = "",
                            !.searchMode = FALSE, !.searchFiles = <<>>]), {})

\* Update, case remoteBrowserLoadedMsg
UpdateLoadedMsg(id, b, msg) ==
    IF msg.err # ""
    THEN Ret([b EXCEPT !.loading = FALSE, !.err = msg.err], {})
    ELSE Ret(filterFiles([SetQuery(b, <<>>) EXCEPT
                            !.loading = FALSE, !.files = msg.files,
                            !.currentDir = msg.path, !.cursor = 0, !.err = "",
                            !.searchMode = FALSE, !.searchFiles = <<>>]), {})

\* variant: the completion is applied without comparing its query
UpdateSearchMsgApplied(id, b, msg) ==
    IF msg.err # ""
    THEN Ret([b EXCEPT !.loading = FALSE, !.searchTriggered = TRUE, !.err = msg.err], {})
    ELSE Ret([sortSearchResults([b EXCEPT !.loading = FALSE, !.searchTriggered = TRUE,
                                          !.searchFiles = msg.files])
                EXCEPT !.cursor = 0, !.err = ""], {})

\* Update, case remoteBrowserSearchMsg
UpdateSearchMsg(id, b, msg) ==
    IF msg.query # b.searchQuery THEN Ret(b, {})
    ELSE IF msg.err # ""
    THEN Ret([b EXCEPT !.loading = FALSE, !.searchTriggered = TRUE, !.err = msg.err], {})
    ELSE Ret([sortSearchResults([b EXCEPT !.loading = FALSE, !.searchTriggered = TRUE,
                                          !.searchFiles = msg.files])
                EXCEPT !.cursor = 0, !.err = ""], {})

\* variant: a tick fires whatever the query has become
DebounceFiresAlways(b, msg) ==
    ~b.searchTriggered

\* the condition under which a debounce tick launches its search
DebounceFires(b, msg) ==
    /\ msg.query = b.searchQuery
    /\ Len(b.searchQuery) >= MinQueryLen
    /\ ~b.searchTriggered

\* Update, case searchDebounceMsg
UpdateDebounceMsg(id, b, msg) ==
    IF DebounceFires(b, msg)
    THEN LET nb == [b EXCEPT !.loading = TRUE, !.pendingSearch = <<>>,
                             !.launches = @ + 1]
         IN  Ret(nb, {runSearch(id, nb)})
    ELSE Ret(b, {})

\* variant: search mode is left with its results kept
ExitSearchKeepingResults(b) ==
    [SetQuery(b, <<>>) EXCEPT !.searchMode = FALSE,
                              !.pendingSearch = <<>>, !.searchTriggered = FALSE]

\* leaving search mode (the assignments the exits from search mode share)
ExitSearch(b) ==
    [SetQuery(b, <<>>) EXCEPT !.searchMode = FALSE, !.searchFiles = <<>>,
                              !.pendingSearch = <<>>, !.searchTriggered = FALSE]

\* msg.String() of a key that types one printable character
IsPrintable(key) == Len(key) = 1

\* variant: Esc during a search leaves search mode with the query kept
UpdateKeyLoadingSearchKeepingQuery(id, b, key) ==
    CASE key = "esc" ->
            Ret([b EXCEPT !.searchMode = FALSE, !.pendingSearch = <<>>,
                          !.searchTriggered = FALSE, !.loading = FALSE,
                          !.cursor = 0], {})
      [] key \in {"up", "ctrl+p"} ->
            Ret(IF b.cursor > 0 THEN [b EXCEPT !.cursor = @ - 1] ELSE b, {})
      [] key \in {"down", "ctrl+n"} ->
            Ret(IF b.cursor < Len(b.searchFiles) - 1
                THEN [b EXCEPT !.cursor = @ + 1] ELSE b, {})
      [] OTHER -> Ret(b, {})

\* variant: Esc during a search leaves loading as it is
UpdateKeyLoadingSearchStillLoading(id, b, key) ==
    CASE key = "esc" ->
            Ret([ExitSearch(b) EXCEPT !.cursor = 0], {})
      [] key \in {"up", "ctrl+p"} ->
            Ret(IF b.cursor > 0 THEN [b EXCEPT !.cursor = @ - 1] ELSE b, {})
      [] key \in {"down", "ctrl+n"} ->
            Ret(IF b.cursor < Len(b.searchFiles) - 1
                THEN [b EXCEPT !.cursor = @ + 1] ELSE b, {})
      [] OTHER -> Ret(b, {})

\* Update, case tea.KeyMsg while m.loading && m.searchMode
UpdateKeyLoadingSearch(id, b, key) ==
    CASE key = "esc" ->
            Ret([ExitSearch(b) EXCEPT !.loading = FALSE, !.cursor = 0], {})
      [] key \in {"up", "ctrl+p"} ->
            Ret(IF b.cursor > 0 THEN [b EXCEPT !.cursor = @ - 1] ELSE b, {})
      [] key \in {"down", "ctrl+n"} ->
            Ret(IF b.cursor < Len(b.searchFiles) - 1
                THEN [b EXCEPT !.cursor = @ + 1] ELSE b, {})
      [] OTHER -> Ret(b, {})

\* Update, case tea.KeyMsg in search mode
UpdateKeySearch(id, b, key) ==
    CASE key \in {"esc", "ctrl+c"} ->
            Ret([ExitSearch(b) EXCEPT !.cursor = 0], {})
      [] key = "enter" ->
            IF Len(b.searchFiles) > 0 /\ b.cursor < Len(b.searchFiles)
            THEN LET file == b.searchFiles[b.cursor + 1] IN
                 IF file.IsDir
                 THEN Ret([ExitSearch(b) EXCEPT !.loading = TRUE],
                          {loadDirectory(id, file.Path)})
                 ELSE IF b.mode = BrowseFiles
                 THEN Ret(CloseSession(b), {remoteBrowserResultMsg(id, file.Path, TRUE)})
                 ELSE Ret(b, {})
            ELSE Ret(b, {})
      [] key \in {"up", "ctrl+p"} ->
            Ret(IF b.cursor > 0 THEN [b EXCEPT !.cursor = @ - 1] ELSE b, {})
      [] key \in {"down", "ctrl+n"} ->
            Ret(IF b.cursor < Len(b.searchFiles) - 1
                THEN [b EXCEPT !.cursor = @ + 1] ELSE b, {})
      [] key = "backspace" ->
            IF Len(b.searchQuery) > 0
            THEN LET q == SubSeq(b.searchQuery, 1, Len(b.searchQuery) - 1)
                     nb == [SetQuery(b, q) EXCEPT !.searchTriggered = FALSE]
                 IN  IF Len(q) < MinQueryLen
                     THEN Ret([nb EXCEPT !.searchFiles = <<>>, !.pendingSearch = <<>>], {})
                     ELSE Ret([(IF Len(nb.searchFiles) > 0
                                THEN filterSearchResults(nb) ELSE nb)
                                 EXCEPT !.pendingSearch = <<>>], {})
            ELSE Ret(b, {})
      [] OTHER ->
            IF IsPrintable(key)
            THEN LET q == b.searchQuery \o <<key>>
                     nb == [SetQuery(b, q) EXCEPT !.searchTriggered = FALSE]
                 IN  IF Len(q) >= MinQueryLen
                     THEN Ret([nb EXCEPT !.pendingSearch = q], {scheduleSearch(id, q)})
                     ELSE Ret(nb, {})
            ELSE Ret(b, {})

\* Update, case tea.KeyMsg in normal mode
UpdateKeyNormal(id, b, key) ==
    CASE key \in {"q", "ctrl+c"} ->
            Ret(CloseSession(b), {remoteBrowserResultMsg(id, <<>>, FALSE)})
      [] key = "esc" ->
            IF b.searchMode
            THEN Ret([SetQuery(b, <<>>) EXCEPT !.searchMode = FALSE,
                                               !.searchFiles = <<>>], {})
            ELSE Ret(CloseSession(b), {remoteBrowserResultMsg(id, <<>>, FALSE)})
      [] key = "/" ->
            Ret([SetQuery(b, <<>>) EXCEPT !.searchMode = TRUE, !.searchFiles = <<>>,
                                          !.cursor = 0], {})
      [] key = "." ->
            LET nb == filterFiles([b EXCEPT !.showHidden = ~b.showHidden])
            IN  Ret([nb EXCEPT !.cursor = ClampCursor(nb.cursor, Len(nb.visibleFiles))], {})
      [] key \in {"r", "R"} ->
            Ret([b EXCEPT !.err = "", !.loading = TRUE, !.session = "nil"],
                {loadDirectory(id, b.currentDir)})
      [] key = "enter" ->
            IF Len(b.visibleFiles) = 0 THEN Ret(b, {})
            ELSE IF b.cursor >= Len(b.visibleFiles) THEN Panic(b)
            ELSE LET file == b.visibleFiles[b.cursor + 1] IN
                 IF file.IsDir
                 THEN Ret([b EXCEPT !.loading = TRUE], {loadDirectory(id, file.Path)})
                 ELSE IF b.mode = BrowseFiles
                 THEN Ret(CloseSession(b), {remoteBrowserResultMsg(id, file.Path, TRUE)})
                 ELSE Ret(b, {})
      [] key \in {"s", " "} ->
            IF b.mode = BrowseDirectories
            THEN IF b.searchMode /\ Len(b.searchFiles) > 0
                    /\ b.cursor >= Len(b.searchFiles)
                 THEN Panic(b)
                 ELSE LET path ==
                            IF b.searchMode /\ Len(b.searchFiles) > 0
                               /\ b.searchFiles[b.cursor + 1].IsDir
                            THEN b.searchFiles[b.cursor + 1].Path
                            ELSE b.currentDir
                      IN  Ret(CloseSession(b), {remoteBrowserResultMsg(id, path, TRUE)})
            ELSE Ret(b, {})
      [] key \in {"up", "k"} ->
            Ret(IF b.cursor > 0 THEN [b EXCEPT !.cursor = @ - 1] ELSE b, {})
      [] key \in {"down", "j"} ->
            Ret(IF b.cursor < Len(b.visibleFiles) - 1
                THEN [b EXCEPT !.cursor = @ + 1] ELSE b, {})
      [] key \in {"home", "g"} ->
            Ret([b EXCEPT !.cursor = 0], {})
      [] key \in {"end", "G"} ->
            Ret(IF Len(b.visibleFiles) > 0
                THEN [b EXCEPT !.cursor = Len(b.visibleFiles) - 1] ELSE b, {})
      [] key \in {"backspace", "h", "left"} ->
            IF Dir(b.currentDir) # b.currentDir
            THEN Ret([b EXCEPT !.loading = TRUE], {loadDirectory(id, Dir(b.currentDir))})
            ELSE Ret(b, {})
      [] key = "~" ->
            Ret([b EXCEPT !.loading = TRUE], {loadDirectory(id, Tilde)})
      [] key \in {"right", "l"} ->
            IF Len(b.visibleFiles) > 0
            THEN IF b.cursor >= Len(b.visibleFiles) THEN Panic(b)
                 ELSE IF b.visibleFiles[b.cursor + 1].IsDir
                 THEN Ret([b EXCEPT !.loading = TRUE],
                          {loadDirectory(id, b.visibleFiles[b.cursor + 1].Path)})
                 ELSE Ret(b, {})
            ELSE Ret(b, {})
      [] OTHER -> Ret(b, {})

\* remoteBrowserModel.Update, case tea.KeyMsg
UpdateKeyMsg(id, b, key) ==
    IF b.loading /\ b.searchMode THEN UpdateKeyLoadingSearch(id, b, key)
    ELSE IF b.loading THEN Ret(b, {})
    ELSE IF b.searchMode THEN UpdateKeySearch(id, b, key)
    ELSE UpdateKeyNormal(id, b, key)

\* (history) the event a browser's handling of msg is recorded as
EventOf(b, msg) ==
    IF msg.kind = "remoteBrowserSearchMsg" /\ msg.query # b.searchQuery
    THEN "staleSearch"
    ELSE "step"

\* remoteBrowserModel.Update
BrowserUpdate(id, b, msg) ==
    CASE msg.kind = "remoteBrowserLoadedMsg" -> UpdateLoadedMsg(id, b, msg)
      [] msg.kind = "remoteBrowserSearchMsg" -> UpdateSearchMsg(id, b, msg)
      [] msg.kind = "searchDebounceMsg" -> UpdateDebounceMsg(id, b, msg)
      [] OTHER -> Ret(b, {})

(***************************************************************************)
(* Goroutines of the browser's commands                                    *)
(***************************************************************************)
\* a browser's handler has run: its model, its command, its panic
BrowserStep(id, r, consumed, event) ==
    /\ lastEvent' = event
    /\ UNCHANGED applied
    /\ browsers' = [browsers EXCEPT ![id] = r.b]
    /\ inflight' = (inflight (-) consumed) (+) SetToBag(r.cmd)
    /\ crashed' = r.panic

\* a remote operation fails (failed) or not: at most MaxFaults fail
Fault(failed) ==
    /\ failed => faults < MaxFaults
    /\ faults' = IF failed THEN faults + 1 ELSE faults

remoteBrowserLoadedMsg(id, files, dir, err) ==
    [Item("remoteBrowserLoadedMsg", id) EXCEPT !.files = files, !.path = dir, !.err = err]

remoteBrowserSearchMsg(id, files, query, err) ==
    [Item("remoteBrowserSearchMsg", id) EXCEPT !.files = files, !.query = query, !.err = err]

\* the closure loadDirectory returns: connect if m.session is nil, expand "~",
\* list.  connected and listed are the outcomes of the remote operations.
LoadDirectoryRun(job, connected, listed) ==
    LET id == job.owner
        b == browsers[id]
        path == IF job.path = Tilde THEN HomeDir ELSE job.path
        msg == IF b.session = "nil" /\ ~connected
               THEN remoteBrowserLoadedMsg(id, <<>>, <<>>, "failed to connect")
               ELSE IF b.session = "closed" \/ ~listed
               THEN remoteBrowserLoadedMsg(id, <<>>, <<>>, "failed to list directory")
               ELSE remoteBrowserLoadedMsg(id, ListDirectory(path), path, "")
    IN  /\ browsers' = [browsers EXCEPT ![id].session =
                            IF @ = "nil" /\ connected THEN "open" ELSE @]
        /\ inflight' = (inflight (-) One(job)) (+) One(msg)
        /\ Fault(~connected \/ ~listed)
        /\ lastEvent' = "step"
        /\ UNCHANGED applied
        /\ UNCHANGED <<nextBrowser, crashed, quit, history, transferVars, uiVars>>

\* the closure runSearch returns; it reads m.session and m.currentDir when it runs
\* (history) path of the message: the directory the search was rooted at
RunSearchRun(job, searched) ==
    LET id == job.owner
        b == browsers[id]
        msg == IF b.session = "nil"
               THEN remoteBrowserSearchMsg(id, <<>>, job.query, "no session")
               ELSE IF b.session = "closed" \/ ~searched
               THEN remoteBrowserSearchMsg(id, <<>>, job.query, "search failed")
               ELSE [remoteBrowserSearchMsg(id,
                        QuickSearch(job.query, b.currentDir, SearchLimit), job.query, "")
                       EXCEPT !.path = b.currentDir]
    IN  /\ inflight' = (inflight (-) One(job)) (+) One(msg)
        /\ Fault(~searched)
        /\ lastEvent' = "step"
        /\ UNCHANGED applied
        /\ UNCHANGED <<browsers, nextBrowser, crashed, quit, history, transferVars, uiVars>>

LoadGoroutine ==
    /\ ~crashed /\ ~quit
    /\ \E job \in Items({"loadJob"}) : \E connected, listed \in BOOLEAN :
          /\ (~connected => listed)
          /\ LoadDirectoryRun(job, connected, listed)

SearchGoroutine ==
    /\ ~crashed /\ ~quit
    /\ \E job \in Items({"searchJob"}) : \E searched \in BOOLEAN :
          RunSearchRun(job, searched)

(***************************************************************************)
(* transfer: RunningTransfer, StartTransfer, Cancel, Done                  *)
(***************************************************************************)
Upload == "Upload"
Download == "Download"

TransferRequest(direction, localPath, remotePath, recursive) ==
    [Direction |-> direction, LocalPath |-> localPath, RemotePath |-> remotePath,
     Recursive |-> recursive]

\* fmt.Sprintf("%s:%s", host, path), strings being sequences of characters
HostPath(host, path) == host \o <<":">> \o path

\* the arguments BuildSCPCommand hands to scp for the request r, which has a
\* Host and a ConfigFile besides
BuildSCPCommand(r) ==
    LET source == IF r.Direction = Upload THEN r.LocalPath
                  ELSE HostPath(r.Host, r.RemotePath)
        dest == IF r.Direction = Upload THEN HostPath(r.Host, r.RemotePath)
                ELSE r.LocalPath
    IN  (IF r.Recursive THEN <<<<"-", "r">>>> ELSE <<>>)
           \o (IF r.ConfigFile # <<>> THEN <<<<"-", "F">>, r.ConfigFile>> ELSE <<>>)
           \o <<source, dest>>

\* the arguments ExecuteWithProgress hands to scp
ExecuteWithProgressArgs(r) ==
    LET source == IF r.Direction = Upload THEN r.LocalPath
                  ELSE HostPath(r.Host, r.RemotePath)
        dest == IF r.Direction = Upload THEN HostPath(r.Host, r.RemotePath)
                ELSE r.LocalPath
    IN  (IF r.Recursive THEN <<<<"-", "r">>>> ELSE <<>>)
           \o (IF r.ConfigFile # <<>> THEN <<<<"-", "F">>, r.ConfigFile>> ELSE <<>>)
           \o <<source, dest>>

\* (variant) StartTransfer naming the local path first whatever the direction
StartTransferArgsLocalFirst(r) ==
    (IF r.Recursive THEN <<<<"-", "r">>>> ELSE <<>>)
       \o (IF r.ConfigFile # <<>> THEN <<<<"-", "F">>, r.ConfigFile>> ELSE <<>>)
       \o <<r.LocalPath, HostPath(r.Host, r.RemotePath)>>

\* the arguments StartTransfer hands to scp
StartTransferArgs(r) ==
    LET source == IF r.Direction = Upload THEN r.LocalPath
                  ELSE HostPath(r.Host, r.RemotePath)
        dest == IF r.Direction = Upload THEN HostPath(r.Host, r.RemotePath)
                ELSE r.LocalPath
    IN  (IF r.Recursive THEN <<<<"-", "r">>>> ELSE <<>>)
           \o (IF r.ConfigFile # <<>> THEN <<<<"-", "F">>, r.ConfigFile>> ELSE <<>>)
           \o <<source, dest>>

\* proc: the scp process: "none" (no RunningTransfer), "unstarted" (cmd.Start
\*   failed, cmd.Process is nil), "running", "exited"
\* status: how the process ended; killed: rt.killed; done: the channel rt.done
\* pc: the goroutine of StartTransfer: "wait" (in cmd.Wait), "send" (has chosen
\*   its result), "end"; result: the result it chose
\* sent: (history) every result sent on done
\* cancelled: (history) Cancel was called before any result was sent
NoTransfer ==
    [proc |-> "none", status |-> "", killed |-> FALSE, done |-> <<>>, pc |-> "end",
     result |-> "", sent |-> <<>>, cancelled |-> FALSE,
     req |-> TransferRequest(Upload, <<>>, <<>>, FALSE)]

TransferCancelled == "transfer cancelled"

\* TransferRequest.StartTransfer; started: cmd.Start succeeded
StartTransfer(req, started) ==
    IF started
    THEN [NoTransfer EXCEPT !.proc = "running", !.pc = "wait", !.req = req]
    ELSE [NoTransfer EXCEPT !.proc = "unstarted", !.done = <<"start failed">>,
                            !.sent = <<"start failed">>, !.req = req]

\* variant: Cancel reports the cancellation itself
CancelAndReport(rt) ==
    IF rt.proc # "unstarted"
    THEN [rt EXCEPT !.killed = TRUE,
                    !.proc = "exited",
                    !.status = IF rt.proc = "running" THEN "signal: killed" ELSE @,
                    !.done = Append(@, TransferCancelled),
                    !.sent = Append(@, TransferCancelled),
                    !.cancelled = IF rt.sent = <<>> THEN TRUE ELSE @]
    ELSE rt

\* RunningTransfer.Cancel: Process.Kill ends a running process and is an
\* error without effect on one that has exited
Cancel(rt) ==
    IF rt.proc # "unstarted"
    THEN [rt EXCEPT !.killed = TRUE,
                    !.proc = "exited",
                    !.status = IF rt.proc = "running" THEN "signal: killed" ELSE @,
                    !.cancelled = IF rt.sent = <<>> THEN TRUE ELSE @]
    ELSE rt

\* the goroutine of StartTransfer after cmd.Wait returned: the result it chooses
WaitResult(rt) ==
    IF rt.killed THEN TransferCancelled
    ELSE IF rt.status # "ok" THEN rt.status
    ELSE "success"

\* the scp process ends by itself
ProcessExit ==
    /\ \E t \in 1..MaxTransfers : \E status \in {"ok", "exit status 1"} :
          /\ transfers[t].proc = "running"
          /\ transfers' = [transfers EXCEPT ![t].proc = "exited", ![t].status = status]
    /\ lastEvent' = "step"
    /\ UNCHANGED applied
    /\ UNCHANGED <<browsers, nextBrowser, inflight, crashed, faults, quit, history,
                   nextTransfer, uiVars>>

\* the goroutine of StartTransfer: cmd.Wait returns and rt.killed is read
TransferWaited ==
    /\ \E t \in 1..MaxTransfers :
          /\ transfers[t].pc = "wait"
          /\ transfers[t].proc = "exited"
          /\ transfers' = [transfers EXCEPT ![t].pc = "send",
                                            ![t].result = WaitResult(transfers[t])]
    /\ lastEvent' = "step"
    /\ UNCHANGED applied
    /\ UNCHANGED <<browsers, nextBrowser, inflight, crashed, faults, quit, history,
                   nextTransfer, uiVars>>

\* the goroutine of StartTransfer: the send on rt.done, which blocks while the
\* channel (capacity 1) is full
TransferSent ==
    /\ \E t \in 1..MaxTransfers :
          /\ transfers[t].pc = "send"
          /\ Len(transfers[t].done) < 1
          /\ transfers' = [transfers EXCEPT ![t].pc = "end",
                                            ![t].done = Append(@, transfers[t].result),
                                            ![t].sent = Append(@, transfers[t].result)]
    /\ lastEvent' = "step"
    /\ UNCHANGED applied
    /\ UNCHANGED <<browsers, nextBrowser, inflight, crashed, faults, quit, history,
                   nextTransfer, uiVars>>

(***************************************************************************)
(* history: HistoryManager, RecordTransfer, GetTransferHistory             *)
(***************************************************************************)
\* the hosts of the SSH configuration
Hosts == {"myhost", "other"}

\* the most transfer entries kept for a host
HistoryLimit == 10

TransferHistoryEntry(direction, localPath, remotePath, timestamp) ==
    [Direction |-> direction, LocalPath |-> localPath, RemotePath |-> remotePath,
     Timestamp |-> timestamp]

PortForwardConfig(type, localPort, remoteHost, remotePort, bindAddress) ==
    [nil |-> FALSE, Type |-> type, LocalPort |-> localPort, RemoteHost |-> remoteHost,
     RemotePort |-> remotePort, BindAddress |-> bindAddress]

\* a *PortForwardConfig that is nil
NilPortForward ==
    [PortForwardConfig("", "", "", "", "") EXCEPT !.nil = TRUE]

\* a host without ConnectionInfo in history.Connections (exists is FALSE);
\* LastConnect, which nothing modelled here reads, is left out
NoConnection ==
    [exists |-> FALSE, ConnectCount |-> 0, PortForwarding |-> NilPortForward,
     TransferHistory |-> <<>>]

\* ConnectionHistory.Connections of a history that records nothing
NoConnections == [h \in Hosts |-> NoConnection]

\* variant: the new entry goes behind the entries already recorded
RecordTransferAppended(connections, hostName, direction, localPath, remotePath, now) ==
    LET entry == TransferHistoryEntry(direction, localPath, remotePath, now)
        conn == connections[hostName]
        appended == conn.TransferHistory \o <<entry>>
    IN  IF conn.exists
        THEN [connections EXCEPT ![hostName].TransferHistory =
                IF Len(appended) > HistoryLimit
                THEN SubSeq(appended, 1, HistoryLimit) ELSE appended]
        ELSE [connections EXCEPT ![hostName] =
                [NoConnection EXCEPT !.exists = TRUE, !.TransferHistory = <<entry>>]]

\* variant: a host first seen through a transfer counts one connection
RecordTransferCounted(connections, hostName, direction, localPath, remotePath, now) ==
    LET entry == TransferHistoryEntry(direction, localPath, remotePath, now)
        conn == connections[hostName]
        prepended == <<entry>> \o conn.TransferHistory
    IN  IF conn.exists
        THEN [connections EXCEPT ![hostName].TransferHistory =
                IF Len(prepended) > HistoryLimit
                THEN SubSeq(prepended, 1, HistoryLimit) ELSE prepended]
        ELSE [connections EXCEPT ![hostName] =
                [NoConnection EXCEPT !.exists = TRUE, !.ConnectCount = 1,
                                     !.TransferHistory = <<entry>>]]

\* HistoryManager.RecordTransfer on hm.history.Connections; now: time.Now()
RecordTransfer(connections, hostName, direction, localPath, remotePath, now) ==
    LET entry == TransferHistoryEntry(direction, localPath, remotePath, now)
        conn == connections[hostName]
        prepended == <<entry>> \o conn.TransferHistory
    IN  IF conn.exists
        THEN [connections EXCEPT ![hostName].TransferHistory =
                IF Len(prepended) > HistoryLimit
                THEN SubSeq(prepended, 1, HistoryLimit) ELSE prepended]
        ELSE [connections EXCEPT ![hostName] =
                [NoConnection EXCEPT !.exists = TRUE, !.TransferHistory = <<entry>>]]

\* HistoryManager.RecordConnection on hm.history.Connections
RecordConnection(connections, hostName) ==
    IF connections[hostName].exists
    THEN [connections EXCEPT ![hostName].ConnectCount = @ + 1]
    ELSE [connections EXCEPT ![hostName] =
            [NoConnection EXCEPT !.exists = TRUE, !.ConnectCount = 1]]

\* HistoryManager.RecordPortForwarding on hm.history.Connections
RecordPortForwarding(connections, hostName, portForwardConfig) ==
    IF connections[hostName].exists
    THEN [connections EXCEPT ![hostName].ConnectCount = @ + 1,
                             ![hostName].PortForwarding = portForwardConfig]
    ELSE [connections EXCEPT ![hostName] =
            [NoConnection EXCEPT !.exists = TRUE, !.ConnectCount = 1,
                                 !.PortForwarding = portForwardConfig]]

\* HistoryManager.CleanupOldEntries on hm.history.Connections
CleanupOldEntries(connections, currentHosts) ==
    [h \in Hosts |-> IF h \in currentHosts THEN connections[h] ELSE NoConnection]

\* HistoryManager.GetTransferHistory
GetTransferHistory(connections, hostName) ==
    IF connections[hostName].exists THEN connections[hostName].TransferHistory ELSE <<>>

\* a *HistoryManager that is nil
NilManager == [nil |-> TRUE, Connections |-> NoConnections]

\* managers: the HistoryManager of each wizard (nil, or its
\*   hm.history.Connections); file: what sshm_history.json holds
\* recorded: (history) every entry recorded for a host, the latest first
NoHistory ==
    [managers |-> [m \in 1..MaxWizards |-> NilManager], file |-> NoConnections,
     recorded |-> [h \in Hosts |-> <<>>]]

\* time.Now(): later than every timestamp recorded so far
Now ==
    LET stamps == {history.recorded[h][1].Timestamp :
                      h \in {x \in Hosts : history.recorded[x] # <<>>}}
    IN  IF stamps = {} THEN 1
        ELSE 1 + CHOOSE t \in stamps : \A u \in stamps : u <= t

\* saveHistory of manager m, whose hm.history.Connections has become connections
Saved(m, connections) ==
    [history EXCEPT !.managers[m].Connections = connections, !.file = connections]

\* a manager records a transfer: RecordTransfer, then saveHistory
Recorded(m, hostName, direction, localPath, remotePath) ==
    LET connections == RecordTransfer(history.managers[m].Connections, hostName,
                                      direction, localPath, remotePath, Now)
    IN  [history EXCEPT
            !.managers[m].Connections = connections,
            !.file = connections,
            !.recorded[hostName] =
                <<TransferHistoryEntry(direction, localPath, remotePath, Now)>> \o @]

(***************************************************************************)
(* quickTransferModel                                                      *)
(***************************************************************************)
QTStateChooseDirection == "QTStateChooseDirection"
QTStateChooseUploadType == "QTStateChooseUploadType"
QTStateChooseDownloadType == "QTStateChooseDownloadType"
QTStateSelectingLocal == "QTStateSelectingLocal"
QTStateSelectingRemote == "QTStateSelectingRemote"
QTStateTransferring == "QTStateTransferring"
QTStateDone == "QTStateDone"

UploadFile == "UploadFile"
UploadFolder == "UploadFolder"

\* the local filesystem: a file and a directory
LocalFile == <<"/", "f">>
LocalDir == <<"/", "d">>
\* os.Stat(path) succeeds and info.IsDir()
IsDir(path) == path = LocalDir

\* runningTransfer: 0 (nil) or a RunningTransfer
NewQuickTransfer ==
    [state |-> QTStateChooseDirection, direction |-> Upload, uploadType |-> UploadFile,
     downloadType |-> UploadFile, selectedIdx |-> 0, localPath |-> <<>>,
     remotePath |-> <<>>, err |-> "", runningTransfer |-> 0]

quickTransferCancelMsg(id) == Item("quickTransferCancelMsg", id)

quickLocalPickedMsg(id, path, selected) ==
    [Item("quickLocalPickedMsg", id) EXCEPT !.path = path, !.selected = selected]

quickRemotePickedMsg(id, path, selected) ==
    [Item("quickRemotePickedMsg", id) EXCEPT !.path = path, !.selected = selected]

quickTransferDoneMsg(id, err) == [Item("quickTransferDoneMsg", id) EXCEPT !.err = err]

\* what Update returns: the model and the command; cancel: it called
\* m.runningTransfer.Cancel(); start: it called StartTransfer on req
WRet(w, cmd) ==
    [w |-> w, cmd |-> cmd, cancel |-> FALSE, start |-> FALSE,
     req |-> TransferRequest(Upload, <<>>, <<>>, FALSE)]

openLocalPicker(id) == Item("pickerJob", id)

openRemotePicker(id, w) ==
    [Item("openRemoteBrowserMsg", id) EXCEPT
        !.path = Tilde,
        !.mode = IF w.direction = Upload THEN BrowseDirectories
                 ELSE IF w.downloadType = UploadFolder THEN BrowseDirectories
                 ELSE BrowseFiles]

\* (variant) executeTransfer taking recursive from the download type alone
executeTransferByDownloadType(id, w, rt) ==
    LET localPath == IF w.direction = Download /\ IsDir(w.localPath)
                     THEN Join(w.localPath, Base(w.remotePath))
                     ELSE w.localPath
    IN  [w |-> [w EXCEPT !.runningTransfer = rt],
         cmd |-> {[Item("waitJob", id) EXCEPT !.rt = rt]},
         cancel |-> FALSE, start |-> TRUE,
         req |-> TransferRequest(w.direction, localPath, w.remotePath,
                                 w.downloadType = UploadFolder)]

\* (variant) executeTransfer passing the local path on as it was picked
executeTransferKeepingLocalPath(id, w, rt) ==
    LET recursive == IF w.direction = Upload THEN IsDir(w.localPath)
                     ELSE w.downloadType = UploadFolder
    IN  [w |-> [w EXCEPT !.runningTransfer = rt],
         cmd |-> {[Item("waitJob", id) EXCEPT !.rt = rt]},
         cancel |-> FALSE, start |-> TRUE,
         req |-> TransferRequest(w.direction, w.localPath, w.remotePath, recursive)]

\* executeTransfer; rt is the RunningTransfer that StartTransfer returns
executeTransfer(id, w, rt) ==
    LET localPath == IF w.direction = Download /\ IsDir(w.localPath)
                     THEN Join(w.localPath, Base(w.remotePath))
                     ELSE w.localPath
        recursive == IF w.direction = Upload THEN IsDir(w.localPath)
                     ELSE w.downloadType = UploadFolder
    IN  [w |-> [w EXCEPT !.runningTransfer = rt],
         cmd |-> {[Item("waitJob", id) EXCEPT !.rt = rt]},
         cancel |-> FALSE, start |-> TRUE,
         req |-> TransferRequest(w.direction, localPath, w.remotePath, recursive)]

\* Update, case quickLocalPickedMsg
UpdateLocalPicked(id, w, msg, rt) ==
    IF ~msg.selected THEN WRet(w, {quickTransferCancelMsg(id)})
    ELSE IF w.direction = Download
    THEN executeTransfer(id, [w EXCEPT !.localPath = msg.path,
                                       !.state = QTStateTransferring], rt)
    ELSE LET nw == [w EXCEPT !.localPath = msg.path, !.state = QTStateSelectingRemote]
         IN  WRet(nw, {openRemotePicker(id, nw)})

\* Update, case quickRemotePickedMsg
UpdateRemotePicked(id, w, msg, rt) ==
    IF ~msg.selected THEN WRet(w, {quickTransferCancelMsg(id)})
    ELSE IF w.direction = Download
    THEN WRet([w EXCEPT !.remotePath = msg.path, !.state = QTStateSelectingLocal],
              {openLocalPicker(id)})
    ELSE executeTransfer(id, [w EXCEPT !.remotePath = msg.path,
                                       !.state = QTStateTransferring], rt)

\* Update, case quickTransferDoneMsg
UpdateDone(id, w, msg) ==
    IF msg.err # ""
    THEN WRet([w EXCEPT !.err = msg.err, !.state = QTStateDone], {})
    ELSE WRet([w EXCEPT !.state = QTStateDone], {quickTransferCancelMsg(id)})

\* the selectedIdx keys the two-choice states share
UpdateSelectedIdx(w, key) ==
    IF key \in {"left", "h", "up", "k"} THEN WRet([w EXCEPT !.selectedIdx = 0], {})
    ELSE IF key \in {"right", "l", "down", "j"} THEN WRet([w EXCEPT !.selectedIdx = 1], {})
    ELSE IF key = "tab" THEN WRet([w EXCEPT !.selectedIdx = (@ + 1) % 2], {})
    ELSE WRet(w, {})

\* the choice a key makes in a two-choice state: 0, 1 or -1 (none)
Choice(w, key, first, second) ==
    IF key \in first THEN 0
    ELSE IF key \in second THEN 1
    ELSE IF key \in {"enter", " "} THEN (IF w.selectedIdx = 0 THEN 0 ELSE 1)
    ELSE -1

\* Update, case tea.KeyMsg
UpdateWizardKey(id, w, key) ==
    IF key = "ctrl+c"
    THEN [WRet(w, {quickTransferCancelMsg(id)}) EXCEPT !.cancel = w.runningTransfer # 0]
    ELSE CASE w.state = QTStateChooseDirection ->
                LET c == Choice(w, key, {"u", "U", "1"}, {"d", "D", "2"}) IN
                IF key \in {"esc", "q"} THEN WRet(w, {quickTransferCancelMsg(id)})
                ELSE IF c = 0
                THEN WRet([w EXCEPT !.direction = Upload, !.selectedIdx = 0,
                                    !.state = QTStateChooseUploadType], {})
                ELSE IF c = 1
                THEN WRet([w EXCEPT !.direction = Download, !.selectedIdx = 0,
                                    !.state = QTStateChooseDownloadType], {})
                ELSE UpdateSelectedIdx(w, key)
           [] w.state = QTStateChooseUploadType ->
                LET c == Choice(w, key, {"f", "F", "1"}, {"d", "D", "2"}) IN
                IF key \in {"esc", "q"}
                THEN WRet([w EXCEPT !.state = QTStateChooseDirection, !.selectedIdx = 0], {})
                ELSE IF c >= 0
                THEN WRet([w EXCEPT !.uploadType = IF c = 0 THEN UploadFile ELSE UploadFolder,
                                    !.state = QTStateSelectingLocal],
                          {openLocalPicker(id)})
                ELSE UpdateSelectedIdx(w, key)
           [] w.state = QTStateChooseDownloadType ->
                LET c == Choice(w, key, {"f", "F", "1"}, {"d", "D", "2"})
                    nw == [w EXCEPT !.downloadType = IF c = 0 THEN UploadFile ELSE UploadFolder,
                                    !.state = QTStateSelectingRemote]
                IN
                IF key \in {"esc", "q"}
                THEN WRet([w EXCEPT !.state = QTStateChooseDirection, !.selectedIdx = 1], {})
                ELSE IF c >= 0 THEN WRet(nw, {openRemotePicker(id, nw)})
                ELSE UpdateSelectedIdx(w, key)
           [] w.state \in {QTStateSelectingLocal, QTStateSelectingRemote} ->
                IF key \in {"esc", "q"} THEN WRet(w, {quickTransferCancelMsg(id)})
                ELSE WRet(w, {})
           [] w.state = QTStateTransferring -> WRet(w, {})
           [] w.state = QTStateDone -> WRet(w, {quickTransferCancelMsg(id)})

\* quickTransferModel.Update
WizardUpdate(id, w, msg, rt) ==
    CASE msg.kind = "quickLocalPickedMsg" -> UpdateLocalPicked(id, w, msg, rt)
      [] msg.kind = "quickRemotePickedMsg" -> UpdateRemotePicked(id, w, msg, rt)
      [] msg.kind = "quickTransferDoneMsg" -> UpdateDone(id, w, msg)

(***************************************************************************)
(* The keys that are pressed                                               *)
(***************************************************************************)
SearchChars == {"a"}

NormalKeys == {"q", "ctrl+c", "esc", "/", ".", "r", "enter", "s", "up", "down",
               "home", "end", "backspace", "~", "right"}

SearchKeys == {"esc", "ctrl+c", "enter", "up", "down", "backspace", "home"}
                 \cup SearchChars

\* the keys offered to a browser: in search mode only SearchChars are typed,
\* and no query grows beyond MaxQueryLen
KeyOffered(b, key) ==
    IF b.searchMode
    THEN key \in SearchKeys /\ (key \in SearchChars => Len(b.searchQuery) < MaxQueryLen)
    ELSE key \in NormalKeys

(***************************************************************************)
(* standaloneRemoteBrowser: the browser as a program of its own            *)
(***************************************************************************)
NullBrowser == [NewRemoteBrowser(<<>>, BrowseFiles) EXCEPT !.loading = FALSE,
                                                           !.currentDir = <<>>]

\* no RunningTransfer exists
NoTransfers ==
    /\ transfers = [t \in 1..MaxTransfers |-> NoTransfer]
    /\ nextTransfer = 0

ViewList == "ViewList"
ViewQuickTransfer == "ViewQuickTransfer"
ViewRemoteBrowser == "ViewRemoteBrowser"

\* the Model as NewModel leaves it: the host list, no sub-view
NoUI ==
    /\ wizards = [w \in 1..MaxWizards |-> NewQuickTransfer]
    /\ nextWizard = 0
    /\ viewMode = ViewList
    /\ quickTransferForm = 0
    /\ remoteBrowserForm = 0

InitBrowser ==
    /\ \E mode \in {BrowseFiles, BrowseDirectories} :
          browsers = [i \in 1..MaxBrowsers |->
                        IF i = 1 THEN NewRemoteBrowser(Tilde, mode) ELSE NullBrowser]
    /\ nextBrowser = 1
    /\ inflight = One(loadDirectory(1, Tilde))
    /\ crashed = FALSE
    /\ faults = 0
    /\ quit = FALSE
    /\ lastEvent = "init"
    /\ applied = NotApplied
    /\ NoTransfers
    /\ NoUI
    /\ history = NoHistory

\* standaloneRemoteBrowser.Update, a key
StandaloneKey ==
    /\ ~crashed /\ ~quit
    /\ \E key \in NormalKeys \cup SearchKeys :
          /\ KeyOffered(browsers[1], key)
          /\ LET r == UpdateKeyMsg(1, browsers[1], key) IN
                /\ Room(r.cmd)
                /\ BrowserStep(1, r, EmptyBag,
                               IF key = "enter" THEN "enter" ELSE "step")
    /\ UNCHANGED <<nextBrowser, faults, quit, history, transferVars, uiVars>>

\* standaloneRemoteBrowser.Update, a message of one of the browser's commands
StandaloneMsg ==
    /\ ~crashed /\ ~quit
    /\ \E msg \in Items({"remoteBrowserLoadedMsg", "remoteBrowserSearchMsg",
                         "searchDebounceMsg"}) :
          BrowserStep(1, BrowserUpdate(1, browsers[1], msg), One(msg),
                      EventOf(browsers[1], msg))
    /\ UNCHANGED <<nextBrowser, faults, quit, history, transferVars, uiVars>>

\* standaloneRemoteBrowser.Update, case remoteBrowserResultMsg
StandaloneResult ==
    /\ ~crashed /\ ~quit
    /\ \E msg \in Items({"remoteBrowserResultMsg"}) :
          /\ browsers' = [browsers EXCEPT ![1].selected =
                            IF msg.selected THEN msg.path ELSE @]
          /\ inflight' = inflight (-) One(msg)
    /\ quit' = TRUE
    /\ lastEvent' = "step"
    /\ UNCHANGED applied
    /\ UNCHANGED <<nextBrowser, crashed, faults, history, transferVars, uiVars>>

NextBrowser ==
    \/ StandaloneKey
    \/ StandaloneMsg
    \/ StandaloneResult
    \/ LoadGoroutine
    \/ SearchGoroutine

SpecBrowser == InitBrowser /\ [][NextBrowser]_vars

(***************************************************************************)
(* Specification SpecFair: the standalone browser under the keys of        *)
(* searching and navigation, with queries of up to MaxSettledLen           *)
(* characters, and with every message delivered and every command run in   *)
(* the end (the event loop and the goroutines of the runtime)              *)
(***************************************************************************)
MaxSettledLen == 4

\* the keys pressed: in search mode the query is typed and corrected, left
\* with esc or for a result with enter; otherwise the browser is sent to a
\* directory, refreshed, put in search mode or left
FairKeys(b) ==
    IF b.searchMode
    THEN {"esc", "enter", "backspace"}
            \cup (IF Len(b.searchQuery) < MaxSettledLen THEN SearchChars ELSE {})
    ELSE {"/", "esc", "enter", "r", "backspace"}

\* standaloneRemoteBrowser.Update, one of FairKeys
FairKey ==
    /\ ~crashed /\ ~quit
    /\ \E key \in FairKeys(browsers[1]) :
          /\ LET r == UpdateKeyMsg(1, browsers[1], key) IN
                /\ Room(r.cmd)
                /\ BrowserStep(1, r, EmptyBag, "step")
    /\ UNCHANGED <<nextBrowser, faults, quit, history, transferVars, uiVars>>

NextFair ==
    \/ FairKey
    \/ StandaloneMsg
    \/ StandaloneResult
    \/ LoadGoroutine
    \/ SearchGoroutine

\* a command or a message of one of these kinds waits in a program that runs
Pending(kinds) == ~crashed /\ ~quit /\ Items(kinds) # {}

\* The runtime runs every command in a goroutine of its own and hands every
\* message to Update: each of the four is weakly fair.  The user owes no key.
\* For the load closure and the browser's messages the weak fairness is
\* written out, []<>~ENABLED <<A>>_vars \/ []<><<A>>_vars, with the state
\* predicate that ENABLED <<A>>_vars equals: the closure can always run with
\* both remote operations succeeding, Update takes any message, and either
\* takes its item out of inflight.
SpecFair ==
    /\ InitBrowser /\ [][NextFair]_vars
    /\ WF_vars(StandaloneResult)
    /\ WF_vars(SearchGoroutine)
    /\ ([]<>(~Pending({"loadJob"})) \/ []<><<LoadGoroutine>>_vars)
    /\ ([]<>(~Pending({"remoteBrowserLoadedMsg", "remoteBrowserSearchMsg",
                       "searchDebounceMsg"}))
           \/ []<><<StandaloneMsg>>_vars)

(***************************************************************************)
(* The transfer package used by a client of its own: StartTransfer, then   *)
(* Cancel and the receive from Done() at any moment                        *)
(***************************************************************************)
ClientStart ==
    /\ nextTransfer < MaxTransfers
    /\ \E started \in BOOLEAN :
          transfers' = [transfers EXCEPT ![nextTransfer + 1] =
                          StartTransfer(TransferRequest(Upload, LocalFile, HomeDir, FALSE),
                                        started)]
    /\ nextTransfer' = nextTransfer + 1
    /\ lastEvent' = "start"
    /\ UNCHANGED applied
    /\ UNCHANGED <<browsers, nextBrowser, inflight, crashed, faults, quit, history, uiVars>>

ClientCancel ==
    /\ \E t \in 1..nextTransfer : transfers' = [transfers EXCEPT ![t] = Cancel(@)]
    /\ lastEvent' = "cancel"
    /\ UNCHANGED applied
    /\ UNCHANGED <<browsers, nextBrowser, inflight, crashed, faults, quit, history,
                   nextTransfer, uiVars>>

ClientReceive ==
    /\ \E t \in 1..nextTransfer :
          /\ transfers[t].done # <<>>
          /\ transfers' = [transfers EXCEPT ![t].done = Tail(@)]
    /\ lastEvent' = "receive"
    /\ UNCHANGED applied
    /\ UNCHANGED <<browsers, nextBrowser, inflight, crashed, faults, quit, history,
                   nextTransfer, uiVars>>

InitTransfer ==
    /\ browsers = [i \in 1..MaxBrowsers |-> NullBrowser]
    /\ nextBrowser = 0
    /\ inflight = EmptyBag
    /\ crashed = FALSE
    /\ faults = 0
    /\ quit = FALSE
    /\ lastEvent = "init"
    /\ applied = NotApplied
    /\ NoTransfers
    /\ NoUI
    /\ history = NoHistory

NextTransfer ==
    \/ ClientStart
    \/ ClientCancel
    \/ ClientReceive
    \/ ProcessExit
    \/ TransferWaited
    \/ TransferSent

SpecTransfer == InitTransfer /\ [][NextTransfer]_vars

(***************************************************************************)
(* The history package used by a client of its own: one HistoryManager on  *)
(* an empty history file, and RecordTransfer calls one after the other     *)
(***************************************************************************)
\* the hosts and directions RecordTransfer is called with
RecordCalls == {<<"myhost", "upload">>, <<"myhost", "download">>, <<"other", "upload">>}

HistoryRecord ==
    /\ Now <= MaxRecords
    /\ \E call \in RecordCalls :
          history' = Recorded(1, call[1], call[2], LocalFile, HomeDir)
    /\ lastEvent' = "record"
    /\ UNCHANGED applied
    /\ UNCHANGED <<browsers, nextBrowser, inflight, crashed, faults, quit,
                   transferVars, uiVars>>

InitHistory ==
    /\ browsers = [i \in 1..MaxBrowsers |-> NullBrowser]
    /\ nextBrowser = 0
    /\ inflight = EmptyBag
    /\ crashed = FALSE
    /\ faults = 0
    /\ quit = FALSE
    /\ lastEvent = "init"
    /\ applied = NotApplied
    /\ NoTransfers
    /\ NoUI
    /\ history = [NoHistory EXCEPT !.managers[1] =
                                     [nil |-> FALSE, Connections |-> NoConnections]]

NextHistory == HistoryRecord

SpecHistory == InitHistory /\ [][NextHistory]_vars

(***************************************************************************)
(* transferFormModel.submitForm and standaloneTransferForm.Update          *)
(***************************************************************************)
\* the local paths that exist: the root, a file and a directory, which is
\* also the working directory and the home directory
LocalExisting == {<<"/">>, LocalFile, LocalDir}

\* strings.TrimSpace
RECURSIVE TrimSpace(_)
TrimSpace(str) ==
    IF str = <<>> THEN str
    ELSE IF Head(str) = " " THEN TrimSpace(Tail(str))
    ELSE IF str[Len(str)] = " " THEN TrimSpace(SubSeq(str, 1, Len(str) - 1))
    ELSE str

\* transfer.ExpandPath, os.UserHomeDir and filepath.Abs succeeding: "~" is
\* the home directory, a relative path is taken from the working directory
ExpandPath(path) ==
    IF HasPrefix(path, Tilde)
    THEN (IF Tail(path) \in {<<>>, <<"/">>} THEN LocalDir ELSE LocalDir \o Tail(path))
    ELSE IF path \in {<<".">>, <<".", "/">>} THEN LocalDir
    ELSE IF Head(path) # "/" THEN Join(LocalDir, path)
    ELSE path

\* transfer.ValidateLocalPath: the error, "" for none
ValidateLocalPath(path, direction) ==
    IF direction = Upload
    THEN (IF path \notin LocalExisting THEN "file or directory does not exist" ELSE "")
    ELSE IF Dir(path) \notin {<<".">>, <<>>} /\ Dir(path) \notin LocalExisting
    THEN "destination directory does not exist"
    ELSE ""

\* transferSubmitMsg: err, "" for nil; request, used when hasRequest
transferSubmitMsg(err, hasRequest, request) ==
    [err |-> err, hasRequest |-> hasRequest, request |-> request]

\* the closure submitForm returns, run on the form f
submitForm(f) ==
    LET localPath == TrimSpace(f.localInput)
        remotePath == TrimSpace(f.remoteInput)
        none == TransferRequest(Upload, <<>>, <<>>, FALSE)
    IN  IF f.direction = Upload
        THEN IF localPath = <<>>
             THEN transferSubmitMsg("local path is required for upload", FALSE, none)
             ELSE IF ValidateLocalPath(ExpandPath(localPath), Upload) # ""
             THEN transferSubmitMsg(ValidateLocalPath(ExpandPath(localPath), Upload),
                                    FALSE, none)
             ELSE transferSubmitMsg("", TRUE,
                     TransferRequest(Upload, ExpandPath(localPath),
                                     IF remotePath = <<>> THEN <<"~", "/">> ELSE remotePath,
                                     IsDir(ExpandPath(localPath))))
        ELSE IF remotePath = <<>>
             THEN transferSubmitMsg("remote path is required for download", FALSE, none)
             ELSE transferSubmitMsg("", TRUE,
                     TransferRequest(Download,
                                     ExpandPath(IF localPath = <<>> THEN <<".", "/">>
                                                ELSE localPath),
                                     remotePath, FALSE))

\* standaloneTransferForm.Update, case transferSubmitMsg; copied: the outcome
\* of ExecuteWithProgress.  executed: scp was run; recorded: RecordTransfer
\* was called; quit: tea.Quit was returned
UpdateSubmitMsg(f, msg, copied) ==
    IF msg.err # ""
    THEN [f |-> [f EXCEPT !.err = msg.err], executed |-> FALSE, recorded |-> FALSE,
          quit |-> FALSE]
    ELSE IF msg.hasRequest
    THEN IF ~copied
         THEN [f |-> [f EXCEPT !.err = "exit status 1"], executed |-> TRUE,
               recorded |-> FALSE, quit |-> FALSE]
         ELSE [f |-> f, executed |-> TRUE, recorded |-> ~f.nilManager, quit |-> TRUE]
    ELSE [f |-> f, executed |-> FALSE, recorded |-> FALSE, quit |-> TRUE]

\* Model.Update, case transferSubmitMsg, for the transfer form f the Model
\* shows; nilManager of f stands for m.historyManager being nil.  recorded:
\* RecordTransfer was called; executed: the scp command was handed to
\* tea.ExecProcess, whose callback returns tea.Quit whatever the outcome
\* (copied) was
ModelUpdateSubmitMsg(f, msg, copied) ==
    IF msg.err # ""
    THEN [f |-> [f EXCEPT !.err = msg.err], executed |-> FALSE, recorded |-> FALSE,
          quit |-> FALSE]
    ELSE IF msg.hasRequest
    THEN [f |-> f, executed |-> TRUE, recorded |-> ~f.nilManager, quit |-> TRUE]
    ELSE [f |-> f, executed |-> FALSE, recorded |-> FALSE, quit |-> FALSE]

(***************************************************************************)
(* transfer.ParseTransferArgs                                              *)
(***************************************************************************)
\* (variant) the string split at its last ":"
SplitHostAtLast(str) ==
    LET i == CHOOSE k \in 1..Len(str) : str[k] = ":" /\ \A j \in (k + 1)..Len(str) : str[j] # ":"
    IN  <<SubSeq(str, 1, i - 1), SubSeq(str, i + 1, Len(str))>>

\* strings.SplitN(str, ":", 2) of a string that contains ":"
SplitHost(str) ==
    LET i == CHOOSE k \in 1..Len(str) : str[k] = ":" /\ \A j \in 1..(k - 1) : str[j] # ":"
    IN  <<SubSeq(str, 1, i - 1), SubSeq(str, i + 1, Len(str))>>

\* ParseTransferArgs: the error ("" for nil) and the request with its host
ParseTransferArgs(source, dest) ==
    LET sourceHasHost == Contains(source, <<":">>)
        destHasHost == Contains(dest, <<":">>)
        parts == SplitHost(IF sourceHasHost THEN source ELSE dest)
        localPath == IF sourceHasHost THEN dest ELSE source
        none == [err |-> "", Host |-> <<>>,
                 req |-> TransferRequest(Upload, <<>>, <<>>, FALSE)]
    IN  IF sourceHasHost /\ destHasHost
        THEN [none EXCEPT !.err = "cannot transfer between two remote hosts"]
        ELSE IF ~sourceHasHost /\ ~destHasHost
        THEN [none EXCEPT !.err = "either source or destination must be a remote path"]
        ELSE IF ~sourceHasHost /\ localPath \notin LocalExisting
        THEN [none EXCEPT !.err = "local path does not exist"]
        ELSE [err |-> "", Host |-> parts[1],
              req |-> TransferRequest(IF sourceHasHost THEN Download ELSE Upload,
                                      localPath, parts[2],
                                      ~sourceHasHost /\ IsDir(localPath))]

\* cpCmd.RunE with two arguments.  hostExists: the host is in the ssh
\* configuration; copied: the outcome of ExecuteWithProgress; loaded:
\* NewHistoryManager returned no error
cpCmdRunE(source, dest, hostExists, copied, loaded) ==
    LET out == ParseTransferArgs(source, dest) IN
    IF out.err # ""
    THEN [err |-> out.err, executed |-> FALSE, recorded |-> FALSE]
    ELSE IF ~hostExists
    THEN [err |-> "host not found in SSH configuration", executed |-> FALSE,
          recorded |-> FALSE]
    ELSE IF ~copied
    THEN [err |-> "transfer failed", executed |-> TRUE, recorded |-> FALSE]
    ELSE [err |-> "", executed |-> TRUE, recorded |-> loaded]

(***************************************************************************)
(* Specification SpecApply: the functions that read no state, each applied *)
(* once to inputs drawn from bounded sets                                  *)
(***************************************************************************)
\* the file names a listed directory may hold
ListedNames == {<<"a">>, <<"B">>, <<"b">>, <<"A", "b">>, <<".", "a">>}

\* most entries in a listed directory
MaxListed == 3

\* the lines ls -la prints: "." and "..", then entries with distinct names
LsOutputs ==
    {<<[Name |-> <<".">>, IsDir |-> TRUE], [Name |-> <<".", ".">>, IsDir |-> TRUE]>> \o l :
        l \in {s \in UNION {[1..n -> [Name : ListedNames, IsDir : BOOLEAN]] : n \in 0..MaxListed} :
                  \A i, j \in 1..Len(s) : i # j => s[i].Name # s[j].Name}}

ListDirectoryCalls ==
    {[fn |-> "ListDirectory", done |-> FALSE, path |-> p, lines |-> l] :
        p \in {RootDir, HomeDir}, l \in LsOutputs}

ApplyListDirectory ==
    /\ applied.fn = "ListDirectory" /\ ~applied.done
    /\ applied' = [fn |-> "ListDirectory", done |-> TRUE, path |-> applied.path,
                   lines |-> applied.lines,
                   files |-> ListEntries(applied.path, applied.lines)]

\* the queries typed, three characters long
Queries == {<<"a", "b", "a">>, <<"A", "b", "a">>}

\* names that are the query, start with it, contain it or do neither
FoundNames == {<<"a", "B", "a">>, <<"a", "b", "a", "b">>, <<"b", "A", "B", "A">>, <<"b">>}

\* the directories the names are found in, the last matching by its path
FoundDirs == {RootDir, HomeDir, <<"/", "a", "b", "a">>}

\* most entries one search returns in the model
MaxFound == 3

SearchOutputs ==
    UNION {[1..n -> {RemoteFile(name, Join(dir, name), FALSE) :
                        name \in FoundNames, dir \in FoundDirs}] : n \in 0..MaxFound}

SearchCalls ==
    {[fn |-> "remoteBrowserSearchMsg", done |-> FALSE, query |-> q, files |-> l] :
        q \in Queries, l \in SearchOutputs}

\* Update receives the results of the search for the query on display
ApplySearchMsg ==
    /\ applied.fn = "remoteBrowserSearchMsg" /\ ~applied.done
    /\ LET b == [NewRemoteBrowser(RootDir, BrowseFiles) EXCEPT
                    !.loading = TRUE, !.searchMode = TRUE, !.searchQuery = applied.query]
           msg == remoteBrowserSearchMsg(1, applied.files, applied.query, "")
       IN  applied' = [fn |-> "remoteBrowserSearchMsg", done |-> TRUE,
                       query |-> applied.query, files |-> applied.files,
                       b |-> UpdateSearchMsg(1, b, msg).b]

\* the requests the three builders of the scp command are applied to
TransferRequests ==
    [Host : {<<"h">>, <<"m", "y">>}, Direction : {Upload, Download},
     LocalPath : {<<".">>, <<"/", "f">>, <<"/", "d">>},
     RemotePath : {RootDir, HomeDir, Tilde},
     Recursive : BOOLEAN, ConfigFile : {<<>>, <<"c">>}]

BuildCalls == {[fn |-> "BuildSCPCommand", done |-> FALSE, req |-> r] : r \in TransferRequests}

ApplyBuildSCPCommand ==
    /\ applied.fn = "BuildSCPCommand" /\ ~applied.done
    /\ applied' = [fn |-> "BuildSCPCommand", done |-> TRUE, req |-> applied.req,
                   build |-> BuildSCPCommand(applied.req),
                   progress |-> ExecuteWithProgressArgs(applied.req),
                   start |-> StartTransferArgs(applied.req)]

\* what the two path inputs of the transfer form may hold
LocalInputs ==
    {<<>>, <<" ">>, <<"/", "f">>, <<" ", "/", "d">>, <<"/", "x">>,
     <<"/", "x", "/", "y">>, <<"~">>, <<".">>, <<"f">>}

RemoteInputs == {<<>>, <<" ">>, HomeDir, <<"/", "h", " ">>}

\* the forms that are submitted
Forms ==
    [direction : {Upload, Download}, localInput : LocalInputs,
     remoteInput : RemoteInputs, err : {""}, nilManager : BOOLEAN]

SubmitCalls ==
    {[fn |-> "submitForm", done |-> FALSE, f |-> f, copied |-> c] :
        f \in Forms, c \in BOOLEAN}

\* Enter on the remote path of the form: submitForm runs, and Update
\* receives its transferSubmitMsg (r: the Update of the form run on its own,
\* model: the Update of the Model that shows the form)
ApplySubmitForm ==
    /\ applied.fn = "submitForm" /\ ~applied.done
    /\ applied' = [fn |-> "submitForm", done |-> TRUE, f |-> applied.f,
                   copied |-> applied.copied,
                   msg |-> submitForm(applied.f),
                   r |-> UpdateSubmitMsg(applied.f, submitForm(applied.f), applied.copied),
                   model |-> ModelUpdateSubmitMsg(applied.f, submitForm(applied.f),
                                                  applied.copied)]

\* the arguments of cp: local paths that exist or do not, remote paths
\* with one ":" or two, with and without a host
CpArgs ==
    {<<"/", "f">>, <<"/", "d">>, <<"/", "x">>, <<"f">>, <<>>,
     <<"h", ":", "/", "h">>, <<"h", ":", "a", ":", "b">>, <<":", "/", "h">>,
     <<"m", "y", ":">>, <<"/", "d", ":", "x">>}

\* env: <<hostExists, copied, loaded>> of cpCmdRunE
ParseCalls ==
    {[fn |-> "ParseTransferArgs", done |-> FALSE, source |-> a, dest |-> b, env |-> e] :
        a \in CpArgs, b \in CpArgs, e \in BOOLEAN \X BOOLEAN \X BOOLEAN}

\* sshm cp source dest
ApplyParseTransferArgs ==
    /\ applied.fn = "ParseTransferArgs" /\ ~applied.done
    /\ applied' = [fn |-> "ParseTransferArgs", done |-> TRUE, source |-> applied.source,
                   dest |-> applied.dest, env |-> applied.env,
                   out |-> ParseTransferArgs(applied.source, applied.dest),
                   run |-> cpCmdRunE(applied.source, applied.dest, applied.env[1],
                                     applied.env[2], applied.env[3])]

\* the characters of the patterns searched for
PatternChars == ShellMeta \cup {"a", "*"}

\* longest pattern searched for
MaxPatternLen == 3

SanitizeCalls ==
    {[fn |-> "QuickSearch", done |-> FALSE, pattern |-> pat] :
        pat \in UNION {[1..n -> PatternChars] : n \in 0..MaxPatternLen}}

ApplyQuickSearch ==
    /\ applied.fn = "QuickSearch" /\ ~applied.done
    /\ applied' = [fn |-> "QuickSearch", done |-> TRUE, pattern |-> applied.pattern,
                   embedded |-> Sanitize(applied.pattern)]

Calls ==
    ListDirectoryCalls \cup SearchCalls \cup BuildCalls \cup SubmitCalls
        \cup ParseCalls \cup SanitizeCalls

InitApply ==
    /\ browsers = [i \in 1..MaxBrowsers |-> NullBrowser]
    /\ nextBrowser = 0
    /\ inflight = EmptyBag
    /\ crashed = FALSE
    /\ faults = 0
    /\ quit = FALSE
    /\ NoTransfers
    /\ NoUI
    /\ history = NoHistory
    /\ lastEvent = "init"
    /\ applied \in Calls

NextApply ==
    /\ \/ ApplyListDirectory
       \/ ApplySearchMsg
       \/ ApplyBuildSCPCommand
       \/ ApplySubmitForm
       \/ ApplyParseTransferArgs
       \/ ApplyQuickSearch
    /\ lastEvent' = "apply"
    /\ UNCHANGED <<browsers, nextBrowser, inflight, crashed, faults, quit, transferVars,
                   uiVars, history>>

SpecApply == InitApply /\ [][NextApply]_vars

(***************************************************************************)
(* Model: the main program with the quick-transfer wizard and the remote   *)
(* browser as its sub-views                                                *)
(***************************************************************************)
\* the host selected in the list, for which the wizard is opened
SelectedHost == "myhost"

\* the keys pressed in the wizard and in the browser it opens
WizardKeys == {"ctrl+c", "esc", "q", "u", "d", "f", "enter"}
UIBrowserKeys == {"ctrl+c", "q", "s"}

\* a wizard's handler has run: its model, its command, the Cancel and the
\* StartTransfer it called; started: cmd.Start succeeded
WizardStep(id, r, consumed, started, event) ==
    /\ r.start => nextTransfer < MaxTransfers
    /\ ~r.start => started
    /\ Fault(~started)
    /\ wizards' = [wizards EXCEPT ![id] = r.w]
    /\ transfers' =
          IF r.start
          THEN [transfers EXCEPT ![nextTransfer + 1] = StartTransfer(r.req, started)]
          ELSE IF r.cancel
          THEN [transfers EXCEPT ![r.w.runningTransfer] = Cancel(@)]
          ELSE transfers
    /\ nextTransfer' = IF r.start THEN nextTransfer + 1 ELSE nextTransfer
    /\ inflight' = (inflight (-) consumed) (+) SetToBag(r.cmd)
    /\ lastEvent' = event
    /\ UNCHANGED applied

\* What the program can no longer read is reset, so that states differing only
\* there are one state: a browser that is not displayed keeps its session, a
\* wizard the Model has dropped keeps what its commands in flight read (the
\* picker direction and uploadType; the wait runningTransfer, direction,
\* localPath and remotePath), a transfer whose result was received keeps that
\* it has ended.
ForgetBrowser(b) == [NullBrowser EXCEPT !.session = b.session]
ForgetWizard(id) ==
    LET w == wizards[id]
        picking == \E it \in Items({"pickerJob"}) : it.owner = id
        waiting == \E it \in Items({"waitJob"}) : it.owner = id
    IN  [NewQuickTransfer EXCEPT
            !.runningTransfer = IF waiting THEN w.runningTransfer ELSE @,
            !.direction = IF picking \/ waiting THEN w.direction ELSE @,
            !.uploadType = IF picking THEN w.uploadType ELSE @,
            !.localPath = IF waiting THEN w.localPath ELSE @,
            !.remotePath = IF waiting THEN w.remotePath ELSE @]
ForgetTransfer(rt) == [NoTransfer EXCEPT !.proc = rt.proc, !.killed = rt.killed]

\* a message is handled without effect
Dropped(msg) ==
    /\ inflight' = inflight (-) One(msg)
    /\ lastEvent' = "step"
    /\ UNCHANGED applied
    /\ UNCHANGED <<browsers, nextBrowser, crashed, faults, quit, history, transferVars, uiVars>>

\* history.NewHistoryManager; loaded: the history file could be read
NewHistoryManager(loaded) ==
    IF loaded THEN [nil |-> FALSE, Connections |-> history.file] ELSE NilManager

\* handleListViewKeys, case "t" with a host selected: NewQuickTransfer, which
\* makes a HistoryManager of its own
ListKey ==
    /\ ~crashed
    /\ viewMode = ViewList
    /\ nextWizard < MaxWizards
    /\ wizards' = [wizards EXCEPT ![nextWizard + 1] = NewQuickTransfer]
    /\ \E loaded \in BOOLEAN :
          /\ Fault(~loaded)
          /\ history' = [history EXCEPT !.managers[nextWizard + 1] =
                                            NewHistoryManager(loaded)]
    /\ nextWizard' = nextWizard + 1
    /\ quickTransferForm' = nextWizard + 1
    /\ viewMode' = ViewQuickTransfer
    /\ lastEvent' = "step"
    /\ UNCHANGED applied
    /\ UNCHANGED <<browsers, nextBrowser, inflight, crashed, quit,
                   transferVars, remoteBrowserForm>>

\* Update, case tea.KeyMsg in ViewQuickTransfer
WizardKey ==
    /\ ~crashed
    /\ viewMode = ViewQuickTransfer
    /\ quickTransferForm # 0
    /\ \E key \in WizardKeys :
          LET id == quickTransferForm
              r == UpdateWizardKey(id, wizards[id], key)
          IN  /\ Room(r.cmd)
              /\ WizardStep(id, r, EmptyBag, TRUE,
                            IF key = "ctrl+c" THEN "ctrl+c" ELSE "step")
    /\ UNCHANGED <<browsers, nextBrowser, crashed, quit, history, nextWizard, viewMode,
                   quickTransferForm, remoteBrowserForm>>

\* Update, case tea.KeyMsg in ViewRemoteBrowser
BrowserKey ==
    /\ ~crashed
    /\ viewMode = ViewRemoteBrowser
    /\ remoteBrowserForm # 0
    /\ \E key \in UIBrowserKeys :
          LET id == remoteBrowserForm
              r == UpdateKeyMsg(id, browsers[id], key)
          IN  /\ Room(r.cmd)
              /\ BrowserStep(id, r, EmptyBag,
                             IF key = "ctrl+c" THEN "ctrl+c" ELSE "step")
    /\ UNCHANGED <<nextBrowser, faults, quit, history, transferVars, uiVars>>

\* Update, case quickTransferCancelMsg
MsgCancel ==
    /\ ~crashed
    /\ \E msg \in Items({"quickTransferCancelMsg"}) :
          inflight' = inflight (-) One(msg)
    /\ viewMode' = ViewList
    /\ quickTransferForm' = 0
    /\ wizards' = [w \in 1..MaxWizards |->
                     IF w = quickTransferForm THEN ForgetWizard(w) ELSE wizards[w]]
    /\ browsers' = [b \in 1..MaxBrowsers |->
                      IF b = remoteBrowserForm THEN ForgetBrowser(browsers[b])
                      ELSE browsers[b]]
    /\ lastEvent' = "step"
    /\ UNCHANGED applied
    /\ UNCHANGED <<nextBrowser, crashed, faults, quit, history, transferVars,
                   nextWizard, remoteBrowserForm>>

\* Update, case quickLocalPickedMsg, quickRemotePickedMsg, quickTransferDoneMsg
MsgWizard ==
    /\ ~crashed
    /\ \E msg \in Items({"quickLocalPickedMsg", "quickRemotePickedMsg",
                         "quickTransferDoneMsg"}) :
          IF viewMode = ViewQuickTransfer /\ quickTransferForm # 0
          THEN LET id == quickTransferForm IN
               /\ \E started \in BOOLEAN :
                     WizardStep(id, WizardUpdate(id, wizards[id], msg, nextTransfer + 1),
                                One(msg), started, "step")
               /\ UNCHANGED <<browsers, nextBrowser, crashed, quit, history, nextWizard,
                              viewMode, quickTransferForm, remoteBrowserForm>>
          ELSE Dropped(msg)

\* Update, case openRemoteBrowserMsg
MsgOpenBrowser ==
    /\ ~crashed
    /\ nextBrowser < MaxBrowsers
    /\ \E msg \in Items({"openRemoteBrowserMsg"}) :
          LET id == nextBrowser + 1
              b == NewRemoteBrowser(msg.path, msg.mode)
          IN  /\ browsers' = [i \in 1..MaxBrowsers |->
                                IF i = id THEN b
                                ELSE IF i = remoteBrowserForm THEN ForgetBrowser(browsers[i])
                                ELSE browsers[i]]
              /\ inflight' = (inflight (-) One(msg)) (+) One(loadDirectory(id, b.currentDir))
    /\ nextBrowser' = nextBrowser + 1
    /\ remoteBrowserForm' = nextBrowser + 1
    /\ viewMode' = ViewRemoteBrowser
    /\ lastEvent' = "step"
    /\ UNCHANGED applied
    /\ UNCHANGED <<crashed, faults, quit, history, transferVars, wizards, nextWizard,
                   quickTransferForm>>

\* Update, case remoteBrowserResultMsg
MsgBrowserResult ==
    /\ ~crashed
    /\ \E msg \in Items({"remoteBrowserResultMsg"}) :
          IF quickTransferForm # 0
          THEN LET id == quickTransferForm
                   pickedMsg == quickRemotePickedMsg(id, msg.path, msg.selected)
               IN  \E started \in BOOLEAN :
                      WizardStep(id, WizardUpdate(id, wizards[id], pickedMsg,
                                                  nextTransfer + 1),
                                 One(msg), started, "step")
          ELSE /\ inflight' = inflight (-) One(msg)
               /\ lastEvent' = "step"
               /\ UNCHANGED applied
               /\ UNCHANGED <<faults, transferVars, wizards>>
    /\ remoteBrowserForm' = 0
    /\ viewMode' = ViewQuickTransfer
    /\ browsers' = [b \in 1..MaxBrowsers |->
                      IF b = remoteBrowserForm THEN ForgetBrowser(browsers[b])
                      ELSE browsers[b]]
    /\ UNCHANGED <<nextBrowser, crashed, quit, history, nextWizard, quickTransferForm>>

\* (history) the event the routing of a browser's message is recorded as
RoutedEventOf(id, msg) ==
    IF msg.kind = "remoteBrowserLoadedMsg" /\ msg.owner # id
    THEN "staleLoad"
    ELSE EventOf(browsers[id], msg)

\* Update, case remoteBrowserLoadedMsg, remoteBrowserSearchMsg, searchDebounceMsg
MsgBrowser ==
    /\ ~crashed
    /\ \E msg \in Items({"remoteBrowserLoadedMsg", "remoteBrowserSearchMsg",
                         "searchDebounceMsg"}) :
          IF viewMode = ViewRemoteBrowser /\ remoteBrowserForm # 0
          THEN LET id == remoteBrowserForm IN
               /\ BrowserStep(id, BrowserUpdate(id, browsers[id], msg), One(msg),
                              RoutedEventOf(id, msg))
               /\ UNCHANGED <<nextBrowser, faults, quit, history, transferVars, uiVars>>
          ELSE Dropped(msg)

\* transfer.OpenFilePicker: what the native dialog returns for the mode
OpenFilePicker(w) ==
    IF w.direction = Upload /\ w.uploadType # UploadFolder THEN LocalFile ELSE LocalDir

\* the closure openLocalPicker returns; selected: the user chose a path
PickerGoroutine ==
    /\ ~crashed
    /\ \E job \in Items({"pickerJob"}) : \E selected \in BOOLEAN :
          LET path == IF selected THEN OpenFilePicker(wizards[job.owner]) ELSE <<>>
          IN  inflight' = (inflight (-) One(job))
                            (+) One(quickLocalPickedMsg(job.owner, path, selected))
    /\ lastEvent' = "step"
    /\ UNCHANGED applied
    /\ UNCHANGED <<browsers, nextBrowser, crashed, faults, quit, history, transferVars, uiVars>>

\* the closure executeTransfer returns: it receives from m.runningTransfer.Done(),
\* reading m.runningTransfer when it runs (unsynchronized with Update, which
\* assigns it: the RunningTransfer of its own executeTransfer or the one
\* assigned since), and records a success in the history, reading m.direction,
\* m.localPath and m.remotePath then
WaitGoroutine ==
    /\ ~crashed
    /\ \E job \in Items({"waitJob"}) :
       \E t \in {job.rt, wizards[job.owner].runningTransfer} :
          LET w == wizards[job.owner]
              result == Head(transfers[t].done)
          IN  /\ transfers[t].done # <<>>
              /\ transfers' = [transfers EXCEPT ![t] = ForgetTransfer(@)]
              /\ inflight' = (inflight (-) One(job))
                    (+) One(quickTransferDoneMsg(job.owner,
                               IF result = "success" THEN "" ELSE result))
              /\ history' =
                    IF result = "success" /\ ~history.managers[job.owner].nil
                    THEN Recorded(job.owner, SelectedHost,
                                  IF w.direction = Download THEN "download" ELSE "upload",
                                  w.localPath, w.remotePath)
                    ELSE history
              /\ lastEvent' = IF result = "success" THEN "success" ELSE "failure"
              /\ UNCHANGED applied
    /\ UNCHANGED <<browsers, nextBrowser, crashed, faults, quit, nextTransfer, uiVars>>

Init ==
    /\ browsers = [i \in 1..MaxBrowsers |-> NullBrowser]
    /\ nextBrowser = 0
    /\ inflight = EmptyBag
    /\ crashed = FALSE
    /\ faults = 0
    /\ quit = FALSE
    /\ lastEvent = "init"
    /\ applied = NotApplied
    /\ NoTransfers
    /\ NoUI
    /\ history = NoHistory

Next ==
    \/ ListKey
    \/ WizardKey
    \/ BrowserKey
    \/ MsgCancel
    \/ MsgWizard
    \/ MsgOpenBrowser
    \/ MsgBrowserResult
    \/ MsgBrowser
    \/ LoadGoroutine
    \/ PickerGoroutine
    \/ WaitGoroutine
    \/ ProcessExit
    \/ TransferWaited
    \/ TransferSent

Spec == Init /\ [][Next]_vars

(***************************************************************************)
(* Specification SpecManagers: the history package used through several    *)
(* HistoryManager objects on the one history file (the Model's, and the    *)
(* one each wizard, form or command makes for itself)                      *)
(***************************************************************************)
\* most connections counted for a host, most transfers recorded
MaxConnects == 2
MaxStored == 2

\* the hosts of the ssh configuration when CleanupOldEntries is called
CurrentHosts == {"myhost"}

PortForwards == {PortForwardConfig("local", "8080", "localhost", "80", "")}

\* the calls of a manager leave everything but the history alone
ManagerCall(event) ==
    /\ lastEvent' = event
    /\ UNCHANGED applied
    /\ UNCHANGED <<browsers, nextBrowser, inflight, crashed, faults, quit,
                   transferVars, uiVars>>

\* NewHistoryManager: the object loads the history file
ManagerNew ==
    /\ \E m \in 1..MaxWizards :
          history' = [history EXCEPT !.managers[m] = NewHistoryManager(TRUE)]
    /\ ManagerCall("new")

ManagerRecordConnection ==
    /\ \E m \in 1..MaxWizards : \E h \in Hosts :
          /\ ~history.managers[m].nil
          /\ history.managers[m].Connections[h].ConnectCount < MaxConnects
          /\ history' = Saved(m, RecordConnection(history.managers[m].Connections, h))
    /\ ManagerCall("connection")

ManagerRecordPortForwarding ==
    /\ \E m \in 1..MaxWizards : \E h \in Hosts : \E config \in PortForwards :
          /\ ~history.managers[m].nil
          /\ history.managers[m].Connections[h].ConnectCount < MaxConnects
          /\ history' = Saved(m, RecordPortForwarding(history.managers[m].Connections,
                                                      h, config))
    /\ ManagerCall("portForwarding")

ManagerRecordTransfer ==
    /\ Now <= MaxStored
    /\ \E m \in 1..MaxWizards : \E h \in Hosts :
          /\ ~history.managers[m].nil
          /\ history' = Recorded(m, h, "upload", LocalFile, HomeDir)
    /\ ManagerCall("record")

ManagerCleanup ==
    /\ \E m \in 1..MaxWizards :
          /\ ~history.managers[m].nil
          /\ history' = Saved(m, CleanupOldEntries(history.managers[m].Connections,
                                                   CurrentHosts))
    /\ ManagerCall("cleanup")

InitManagers ==
    /\ browsers = [i \in 1..MaxBrowsers |-> NullBrowser]
    /\ nextBrowser = 0
    /\ inflight = EmptyBag
    /\ crashed = FALSE
    /\ faults = 0
    /\ quit = FALSE
    /\ lastEvent = "init"
    /\ applied = NotApplied
    /\ NoTransfers
    /\ NoUI
    /\ history = NoHistory

NextManagers ==
    \/ ManagerNew
    \/ ManagerRecordConnection
    \/ ManagerRecordPortForwarding
    \/ ManagerRecordTransfer
    \/ ManagerCleanup

SpecManagers == InitManagers /\ [][NextManagers]_vars

(***************************************************************************)
(* Properties of the browser (under SpecBrowser)                           *)
(***************************************************************************)
\* C1: between two changes of searchQuery at most one remote search is
\* launched, however many debounce ticks were scheduled for the query.
C1_DebounceCollapses == \A id \in 1..MaxBrowsers : browsers[id].launches <= 1

\* the visible state of a browser and its debounce flags
SearchView(b) ==
    <<b.searchFiles, b.cursor, b.loading, b.err, b.pendingSearch, b.searchTriggered>>

\* C2: handling a search completion whose query differs from the current
\* searchQuery changes none of searchFiles, cursor, loading, err, pendingSearch,
\* searchTriggered.
C2_StaleSearchDiscarded ==
    [][lastEvent' = "staleSearch" =>
         \A id \in 1..MaxBrowsers : SearchView(browsers'[id]) = SearchView(browsers[id])]_vars

\* C2 witness: a stale search completion has just been handled while results
\* for another query were awaited
C2_Witness ==
    /\ lastEvent = "staleSearch"
    /\ browsers[1].searchMode

\* C6: every search that was launched carries a query of at least 3 characters.
C6_NoShortSearch ==
    \A it \in Items({"searchJob", "remoteBrowserSearchMsg"}) : Len(it.query) >= 3

\* C6 witness: a search has been launched and the query has then been shortened
C6_Witness ==
    /\ Items({"searchJob"}) # {}
    /\ Len(browsers[1].searchQuery) < 3

\* the entries of files that are displayed while hidden files are not shown
Unhidden(files) ==
    SelectSeq(files, LAMBDA f : f.Name = <<".", ".">> \/ f.Name[1] # ".")

\* the browser after the key "." in normal mode
Toggled(b) == UpdateKeyNormal(1, b, ".").b

\* the cursor is an index of the list of n entries (0 when there is none)
Clamped(cursor, n) == 0 <= cursor /\ (cursor < n \/ cursor = 0)

\* C13: visibleFiles is files when hidden files are shown and otherwise the
\* entries of files that are ".." or do not start with "."; the toggle key
\* leaves files alone and the cursor inside the list, and pressed twice it
\* restores visibleFiles, members and order.
C13_ToggleRoundTrip ==
    \A id \in 1..MaxBrowsers :
        LET b == browsers[id]
            once == Toggled(b)
            twice == Toggled(once)
        IN  /\ b.visibleFiles = IF b.showHidden THEN b.files ELSE Unhidden(b.files)
            /\ (~b.loading /\ ~b.searchMode)
                  => /\ once.showHidden # b.showHidden
                     /\ once.files = b.files
                     /\ once.visibleFiles =
                           (IF once.showHidden THEN b.files ELSE Unhidden(b.files))
                     /\ Clamped(once.cursor, Len(once.visibleFiles))
                     /\ Clamped(twice.cursor, Len(twice.visibleFiles))
                     /\ twice.visibleFiles = b.visibleFiles

\* C13 witness: hidden files have been toggled on, a hidden entry is displayed
\* and the cursor is on the last entry, which the next toggle removes from under it
C13_Witness ==
    LET b == browsers[1] IN
    /\ ~b.loading /\ ~b.searchMode /\ b.showHidden
    /\ Len(Unhidden(b.files)) < Len(b.visibleFiles)
    /\ b.cursor = Len(b.visibleFiles) - 1
    /\ Toggled(b).cursor < b.cursor

\* C14 as stated: search results and a directory listing are never held at the
\* same time (entering search mode would clear the listing).
C14_NeverBoth ==
    \A id \in 1..MaxBrowsers :
        ~(browsers[id].searchFiles # <<>> /\ browsers[id].files # <<>>)

\* C14 amended: search results are held only in search mode, where the directory
\* listing is kept but not the active one; entering search mode empties query
\* and results and leaves files and visibleFiles as they are; a directory load
\* that completes without error installs its listing and leaves the browser out
\* of search mode with query and results empty.
C14_ResultsOnlyInSearchMode ==
    /\ [](\A id \in 1..MaxBrowsers :
            browsers[id].searchFiles # <<>> => browsers[id].searchMode)
    /\ [][\A id \in 1..MaxBrowsers :
            (~browsers[id].searchMode /\ browsers'[id].searchMode)
                => /\ browsers'[id].searchFiles = <<>>
                   /\ browsers'[id].searchQuery = <<>>
                   /\ browsers'[id].files = browsers[id].files
                   /\ browsers'[id].visibleFiles = browsers[id].visibleFiles]_vars
    /\ [][\A msg \in Items({"remoteBrowserLoadedMsg"}) :
            (msg.err = "" /\ inflight' = inflight (-) One(msg))
                => /\ browsers'[1].files = msg.files
                   /\ ~browsers'[1].searchMode
                   /\ browsers'[1].searchQuery = <<>>
                   /\ browsers'[1].searchFiles = <<>>]_vars

\* C14 witness: search results are displayed while the listing of the directory
\* searched is still held
C14_Witness ==
    /\ browsers[1].searchMode
    /\ browsers[1].searchFiles # <<>>
    /\ browsers[1].visibleFiles # <<>>
    /\ ~browsers[1].loading

\* C15: while a directory listing is pending and an earlier listing is held,
\* the key down moves the cursor to the next entry of visibleFiles and the key
\* up to the one before.
C15_NavigationWhileListing ==
    \A id \in 1..MaxBrowsers :
        LET b == browsers[id] IN
        (b.loading /\ ~b.searchMode /\ b.files # <<>>)
            => /\ b.cursor < Len(b.visibleFiles) - 1
                  => UpdateKeyMsg(id, b, "down").b.cursor = b.cursor + 1
               /\ b.cursor > 0
                  => UpdateKeyMsg(id, b, "up").b.cursor = b.cursor - 1

\* C16: while a remote search is executing, a typed character is appended to
\* searchQuery and backspace removes its last character.
C16_TypingWhileSearching ==
    \A id \in 1..MaxBrowsers :
        LET b == browsers[id] IN
        (b.loading /\ b.searchMode)
            => /\ UpdateKeyMsg(id, b, "a").b.searchQuery = b.searchQuery \o <<"a">>
               /\ b.searchQuery # <<>>
                  => UpdateKeyMsg(id, b, "backspace").b.searchQuery
                        = SubSeq(b.searchQuery, 1, Len(b.searchQuery) - 1)

\* C17: in search mode escape leaves search mode, empties query, results and
\* debounce state and returns no command; otherwise it closes the session and
\* returns the completion without a selection.
C17_EscapeTwoLevel ==
    \A id \in 1..MaxBrowsers :
        LET b == browsers[id]
            r == UpdateKeyMsg(id, b, "esc")
        IN  IF b.searchMode
            THEN /\ r.cmd = {}
                 /\ ~r.b.searchMode
                 /\ r.b.searchQuery = <<>> /\ r.b.searchFiles = <<>>
                 /\ r.b.pendingSearch = <<>> /\ ~r.b.searchTriggered
            ELSE /\ r.cmd = {remoteBrowserResultMsg(id, <<>>, FALSE)}
                 /\ r.b.session # "open"

\* the completions among the commands an Update returned
Completions(r) == {it \in r.cmd : it.kind = "remoteBrowserResultMsg"}

\* C18: with a list displayed, the keys s and space in directory-picking mode
\* return the completion for currentDir, or in search mode with the cursor on a
\* directory result for that result's path, and load nothing; in file-browsing
\* mode they return no completion.
C18_SelectCurrentDirectory ==
    \A id \in 1..MaxBrowsers : \A key \in {"s", " "} :
        LET b == browsers[id]
            r == UpdateKeyMsg(id, b, key)
            onDir == /\ b.searchMode /\ b.cursor < Len(b.searchFiles)
                     /\ b.searchFiles[b.cursor + 1].IsDir
            path == IF onDir THEN b.searchFiles[b.cursor + 1].Path ELSE b.currentDir
        IN  (~b.loading /\ ~r.panic)
               => IF b.mode = BrowseDirectories
                  THEN /\ r.cmd = {remoteBrowserResultMsg(id, path, TRUE)}
                       /\ r.b.currentDir = b.currentDir /\ ~r.b.loading
                  ELSE Completions(r) = {}

\* the entry under the cursor of the list displayed, and whether there is one
Displayed(b) == IF b.searchMode THEN b.searchFiles ELSE b.visibleFiles
OnEntry(b) == ~b.loading /\ b.cursor < Len(Displayed(b))
Entry(b) == Displayed(b)[b.cursor + 1]

\* C19: Enter on a search result that is a directory leaves search mode, empties
\* query, results and debounce state, sets loading and issues the listing of the
\* result's path; every listing that is issued is returned for its own path, and
\* a listing that completes without error leaves the browser in normal mode at
\* the directory listed with cursor 0.
C19_EnterResultDirectory ==
    /\ [](\A id \in 1..MaxBrowsers :
            LET b == browsers[id]
                r == UpdateKeyMsg(id, b, "enter")
            IN  (b.searchMode /\ OnEntry(b) /\ Entry(b).IsDir)
                   => /\ ~r.panic
                      /\ r.cmd = {loadDirectory(id, Entry(b).Path)}
                      /\ r.b.loading /\ ~r.b.searchMode
                      /\ r.b.searchQuery = <<>> /\ r.b.searchFiles = <<>>
                      /\ r.b.pendingSearch = <<>> /\ ~r.b.searchTriggered)
    /\ [][\A job \in Items({"loadJob"}) :
            inflight' (+) One(job) # inflight
                => \A msg \in BagToSet(inflight') :
                      (msg.kind = "remoteBrowserLoadedMsg" /\ msg.err = "")
                          => msg.path = IF job.path = Tilde THEN HomeDir ELSE job.path]_vars
    /\ [][\A msg \in Items({"remoteBrowserLoadedMsg"}) :
            (msg.err = "" /\ inflight' = inflight (-) One(msg))
                => /\ ~browsers'[1].searchMode /\ ~browsers'[1].loading
                   /\ browsers'[1].currentDir = msg.path
                   /\ browsers'[1].files = msg.files
                   /\ browsers'[1].cursor = 0]_vars

\* C19 witness: Enter was pressed on a directory found by a search from the
\* root, two levels down, and its listing has been issued
C19_Witness ==
    /\ lastEvent = "enter"
    /\ browsers[1].loading /\ ~browsers[1].searchMode
    /\ browsers[1].currentDir = RootDir
    /\ \E job \in Items({"loadJob"}) : \E i \in 1..Len(FsEntries) :
          /\ job.path = FsEntries[i].Path
          /\ FsEntries[i].IsDir
          /\ Dir(job.path) # RootDir

\* C20: Enter on an entry that is a file, of a listing or of search results,
\* returns in file-browsing mode the completion carrying that entry's path; in
\* directory-picking mode it returns no command and the same model, and Enter
\* returns no completion there in any state.
C20_EnterFile ==
    \A id \in 1..MaxBrowsers :
        LET b == browsers[id]
            r == UpdateKeyMsg(id, b, "enter")
        IN  /\ (b.mode = BrowseDirectories /\ ~r.panic) => Completions(r) = {}
            /\ (OnEntry(b) /\ ~Entry(b).IsDir)
                  => /\ ~r.panic
                     /\ IF b.mode = BrowseFiles
                        THEN r.cmd = {[Item("remoteBrowserResultMsg", id) EXCEPT
                                          !.path = Entry(b).Path, !.selected = TRUE]}
                        ELSE r.cmd = {} /\ r.b = b

\* C20 witness: Enter on a file among the search results has returned the
\* completion with its path
C20_Witness ==
    /\ lastEvent = "enter"
    /\ browsers[1].searchMode /\ OnEntry(browsers[1]) /\ ~Entry(browsers[1]).IsDir
    /\ \E it \in Items({"remoteBrowserResultMsg"}) :
          it.selected /\ it.path = Entry(browsers[1]).Path

\* C31: with a listing displayed (not loading, not in search mode, visibleFiles
\* not empty) the cursor is an index of visibleFiles, so that the keys enter and
\* right never index visibleFiles out of range.
C31_CursorInRange ==
    \A id \in 1..MaxBrowsers :
        LET b == browsers[id] IN
        (~b.loading /\ ~b.searchMode /\ b.visibleFiles # <<>>)
           => /\ 0 <= b.cursor /\ b.cursor < Len(b.visibleFiles)
              /\ ~UpdateKeyMsg(id, b, "enter").panic
              /\ ~UpdateKeyMsg(id, b, "right").panic

\* C34: a search completion whose results the browser accepts comes from a
\* search rooted at the directory that is currentDir when it is accepted ("~"
\* and the home directory being one directory).
C34_ResultsOfCurrentDirectory ==
    \A msg \in Items({"remoteBrowserSearchMsg"}) :
        LET b == browsers[msg.owner]
            resolved(dir) == IF dir = Tilde THEN HomeDir ELSE dir
        IN  (msg.err = "" /\ BrowserUpdate(msg.owner, b, msg) # Ret(b, {}))
               => resolved(msg.path) = resolved(b.currentDir)

\* the queries a search can settle at
SettledQueries ==
    {q \in UNION {[1..n -> SearchChars] : n \in MinQueryLen..MaxSettledLen} : TRUE}

\* the browser shows what the remote search for q finds under currentDir
Shown(b, q) ==
    /\ ~b.loading
    /\ b.searchFiles = SearchSort(ToLower(q), QuickSearch(q, b.currentDir, SearchLimit))

\* C37: when the query stays at a value of three characters or more (and no
\* remote operation fails), the results of the remote search for that value
\* are displayed in the end.
C37_SettledQuerySearched ==
    \A q \in SettledQueries :
        <>[](/\ browsers[1].searchMode /\ browsers[1].searchQuery = q
             /\ faults = 0 /\ ~crashed /\ ~quit)
           => <>Shown(browsers[1], q)

\* C38: a browser that is loading is not loading some time later (or the
\* program has ended).
C38_LoadingEnds ==
    browsers[1].loading ~> (~browsers[1].loading \/ quit \/ crashed)

\* the browser is loading for a search that has run, its completion on its way
C38_Witness ==
    /\ browsers[1].loading /\ browsers[1].searchMode
    /\ \E it \in Items({"remoteBrowserSearchMsg"}) :
          it.query = browsers[1].searchQuery /\ it.err = ""

\* C39: a browser that is not in search mode holds no query and no search
\* results, whichever way search mode was left and whatever completion of a
\* search arrives afterwards.
C39_NoQueryOutsideSearchMode ==
    \A id \in 1..MaxBrowsers :
        ~browsers[id].searchMode
            => /\ browsers[id].searchQuery = <<>>
               /\ browsers[id].searchFiles = <<>>

\* search mode has been left and the completion of a search has arrived since
\* and was handled
C39_Witness ==
    /\ lastEvent = "staleSearch"
    /\ ~browsers[1].searchMode
    /\ browsers[1].session = "open"
    /\ ~crashed

\* C26: a load that failed leaves the browser as it was, session included,
\* but for the error text, which is attached, and loading, which is cleared;
\* the retry key gives the session up, clears the error and reloads the
\* current directory, which opens a new session; no other key changes the
\* session except by closing it as the browser completes; and a session
\* changes in no other way than these and the opening by a load.
C26_FailureKeepsSession ==
    /\ [](\A id \in 1..MaxBrowsers :
            LET b == browsers[id] IN
            /\ \A msg \in Items({"remoteBrowserLoadedMsg"}) :
                  (msg.owner = id /\ msg.err # "")
                     => BrowserUpdate(id, b, msg)
                           = Ret([b EXCEPT !.loading = FALSE, !.err = msg.err], {})
            /\ \A key \in NormalKeys \cup SearchKeys :
                  LET r == UpdateKeyMsg(id, b, key) IN
                  IF key \in {"r", "R"} /\ ~b.loading /\ ~b.searchMode
                  THEN r = Ret([b EXCEPT !.err = "", !.loading = TRUE, !.session = "nil"],
                               {loadDirectory(id, b.currentDir)})
                  ELSE \/ r.b.session = b.session
                       \/ r.b.session = "closed" /\ Completions(r) # {})
    /\ [][\A id \in 1..MaxBrowsers :
            browsers'[id].session # browsers[id].session
               => \/ /\ browsers[id].session = "nil" /\ browsers'[id].session = "open"
                     /\ \E job \in Items({"loadJob"}) :
                           job.owner = id /\ CopiesIn(job, inflight') < CopiesIn(job, inflight)
                  \/ /\ browsers'[id].session = "closed"
                     /\ \E it \in BagToSet(inflight') :
                           it.kind = "remoteBrowserResultMsg" /\ it.owner = id
                  \/ /\ browsers'[id].session = "nil" /\ browsers'[id].loading
                     /\ loadDirectory(id, browsers[id].currentDir)
                           \in BagToSet(inflight')]_vars

\* C26 witness: entering a directory failed on an open session; the error is
\* shown over the listing of the home directory, which is still current,
\* and the session is still open.
C26_Witness ==
    /\ browsers[1].err = "failed to list directory"
    /\ browsers[1].session = "open"
    /\ ~browsers[1].loading
    /\ browsers[1].currentDir = HomeDir
    /\ browsers[1].files = ListDirectory(HomeDir)
    /\ faults = 1

(***************************************************************************)
(* Properties of the transfer package (under SpecTransfer)                 *)
(***************************************************************************)
\* C4: a RunningTransfer on which Cancel was called before its result was sent
\* delivers 'transfer cancelled' as that result.
C4_CancelWins ==
    \A t \in 1..MaxTransfers :
        transfers[t].cancelled /\ transfers[t].sent # <<>>
            => transfers[t].sent = <<TransferCancelled>>

\* C5: a RunningTransfer sends at most one result, its send never finds the
\* channel full, and once its goroutine has ended it has sent exactly one,
\* however often Cancel was called.
C5_OneResult ==
    \A t \in 1..MaxTransfers :
        /\ Len(transfers[t].sent) <= 1
        /\ transfers[t].pc = "send" => transfers[t].done = <<>>
        /\ transfers[t].proc # "none" /\ transfers[t].pc = "end"
              => Len(transfers[t].sent) = 1

\* C5 witness: Cancel was called on a transfer and on one that failed to start,
\* and each has sent its one result
C5_Witness ==
    /\ lastEvent = "cancel"
    /\ \E t \in 1..MaxTransfers :
          transfers[t].killed /\ transfers[t].pc = "end" /\ Len(transfers[t].sent) = 1
    /\ \E t \in 1..MaxTransfers :
          transfers[t].proc = "unstarted" /\ Len(transfers[t].sent) = 1

(***************************************************************************)
(* Properties of the main program (under Spec)                             *)
(***************************************************************************)
\* what a browser lists
Listing(b) == <<b.currentDir, b.files, b.visibleFiles, b.cursor>>

\* C3: handling the completion of a directory load that is not the load of the
\* browser now displayed changes none of currentDir, files, visibleFiles, cursor.
C3_StaleLoadDiscarded ==
    [][lastEvent' = "staleLoad" =>
         \A id \in 1..MaxBrowsers : Listing(browsers'[id]) = Listing(browsers[id])]_vars

\* C7: at most one scp process runs, the wizard of the Model holds its
\* RunningTransfer, and at most one session is open.
C7_OneTransferOneSession ==
    /\ Cardinality({t \in 1..MaxTransfers : transfers[t].proc = "running"}) <= 1
    /\ \A t \in 1..MaxTransfers :
          transfers[t].proc = "running"
              => /\ quickTransferForm # 0
                 /\ wizards[quickTransferForm].runningTransfer = t
    /\ Cardinality({b \in 1..MaxBrowsers : browsers[b].session = "open"}) <= 1

\* C8: a browser whose result message is in flight has no open session, and
\* neither has a browser the Model no longer refers to.
C8_SessionClosed ==
    /\ \A it \in Items({"remoteBrowserResultMsg"}) : browsers[it.owner].session # "open"
    /\ \A b \in 1..MaxBrowsers : browsers[b].session = "open" => b = remoteBrowserForm

\* the steps of the prescribed order, for a direction
Follows(direction) ==
    {<<QTStateChooseDirection, QTStateChooseUploadType>>,
     <<QTStateChooseDirection, QTStateChooseDownloadType>>,
     <<QTStateChooseUploadType, QTStateChooseDirection>>,
     <<QTStateChooseDownloadType, QTStateChooseDirection>>,
     <<QTStateTransferring, QTStateDone>>}
    \cup (IF direction = Upload
          THEN {<<QTStateChooseUploadType, QTStateSelectingLocal>>,
                <<QTStateSelectingLocal, QTStateSelectingRemote>>,
                <<QTStateSelectingRemote, QTStateTransferring>>}
          ELSE {<<QTStateChooseDownloadType, QTStateSelectingRemote>>,
                <<QTStateSelectingRemote, QTStateSelectingLocal>>,
                <<QTStateSelectingLocal, QTStateTransferring>>})

\* C9: every change of state of the Model's wizard is a step of the prescribed
\* order for its direction.
C9_PrescribedOrder ==
    [][\A w \in 1..MaxWizards :
          (w = quickTransferForm /\ w = quickTransferForm'
              /\ wizards'[w].state # wizards[w].state)
          => <<wizards[w].state, wizards'[w].state>> \in Follows(wizards'[w].direction)]_vars

\* the number of cancellations in flight: the wizard's cancel message, or the
\* browser's result without a selection, which the wizard turns into it
Cancelling(bag) ==
    BagCardinality(BagOfAll(LAMBDA it : it.kind,
        [it \in {x \in BagToSet(bag) :
                    \/ x.kind = "quickTransferCancelMsg"
                    \/ x.kind = "remoteBrowserResultMsg" /\ ~x.selected} |-> bag[it]]))

\* C10: a ctrl+c pressed while the Model has a wizard cancels the wizard's
\* RunningTransfer, if it has one, and puts a cancellation in flight.
C10_CtrlCCancels ==
    [][(lastEvent' = "ctrl+c" /\ quickTransferForm # 0)
         => /\ Cancelling(inflight') > Cancelling(inflight)
            /\ LET rt == wizards[quickTransferForm].runningTransfer IN
               rt # 0 => transfers'[rt].killed \/ transfers'[rt].proc = "unstarted"]_vars

\* C32: the view displayed has its form: in ViewQuickTransfer quickTransferForm
\* is not nil and in ViewRemoteBrowser remoteBrowserForm is not nil.
C32_ViewHasForm ==
    /\ viewMode = ViewQuickTransfer => quickTransferForm # 0
    /\ viewMode = ViewRemoteBrowser => remoteBrowserForm # 0

\* the wizard id is waiting for the message: it is in the state the message
\* ends, and a message made by a wizard's own command was made by this one
Awaited(id, msg) ==
    CASE msg.kind = "quickLocalPickedMsg" ->
            wizards[id].state = QTStateSelectingLocal /\ msg.owner = id
      [] msg.kind = "quickRemotePickedMsg" ->
            wizards[id].state = QTStateSelectingRemote
      [] msg.kind = "quickTransferDoneMsg" ->
            wizards[id].state = QTStateTransferring /\ msg.owner = id

\* the messages in flight that Model.Update hands to the wizard
WizardMsgs(id) ==
    Items({"quickLocalPickedMsg", "quickTransferDoneMsg"})
       \cup {quickRemotePickedMsg(id, it.path, it.selected) :
                it \in Items({"remoteBrowserResultMsg"})}

\* C33: a picker result or a transfer result that the wizard it reaches is not
\* waiting for changes nothing in that wizard and has it return no command and
\* start nothing; Transferring is entered only with both paths set, and Done
\* only from Transferring.
C33_OnlyAwaitedMessages ==
    /\ [](\A id \in 1..MaxWizards : \A msg \in WizardMsgs(id) :
            (quickTransferForm = id /\ ~Awaited(id, msg))
               => LET r == WizardUpdate(id, wizards[id], msg, nextTransfer + 1)
                  IN  r.w = wizards[id] /\ r.cmd = {} /\ ~r.start)
    /\ [][\A id \in 1..MaxWizards :
            /\ (wizards'[id].state = QTStateTransferring
                  /\ wizards[id].state # QTStateTransferring)
                  => wizards'[id].localPath # <<>> /\ wizards'[id].remotePath # <<>>
            /\ (wizards'[id].state = QTStateDone /\ wizards[id].state # QTStateDone)
                  => wizards[id].state = QTStateTransferring]_vars

(***************************************************************************)
(* Properties of the history (under SpecHistory and Spec)                  *)
(***************************************************************************)
\* C11: the wait of a transfer that succeeded appends one entry to the history
\* of the wizard's host in the step that produces the done message, the wait of
\* a transfer that failed or was cancelled leaves the history as it is, and
\* every success a transfer reports has a wait that will receive it.
C11_HistoryOnSuccess ==
    /\ [](\A t \in 1..MaxTransfers :
            transfers[t].done = <<"success">>
                => \E job \in Items({"waitJob"}) :
                      t \in {job.rt, wizards[job.owner].runningTransfer})
    /\ [][/\ (lastEvent' = "success"
                => Len(history'.recorded[SelectedHost])
                      = Len(history.recorded[SelectedHost]) + 1)
           /\ (lastEvent' = "failure" => history' = history)]_vars

\* C12: the transfer history of every host holds at most 10 entries, and these
\* are the latest min(n, 10) of the n entries recorded for it, the latest first.
C12_HistoryBounded ==
    \A h \in Hosts :
        LET n == Len(history.recorded[h])
            hist == GetTransferHistory(history.managers[1].Connections, h)
        IN  /\ Len(hist) <= 10
            /\ hist = SubSeq(history.recorded[h], 1, IF n < 10 THEN n ELSE 10)

\* C12 witness: an eleventh entry was recorded for a host, and another host has
\* an entry as well
C12_Witness ==
    /\ lastEvent = "record"
    /\ Len(history.recorded["myhost"]) = 11
    /\ Len(history.recorded["other"]) = 1

(***************************************************************************)
(* Properties of several HistoryManager objects (SpecManagers)             *)
(***************************************************************************)
\* the transfer entries of a sequence
Entries(seq) == {seq[i] : i \in 1..Len(seq)}

\* C35: what the history file holds for a host is still in the file after any
\* call of any manager: the host's record, its transfer entries, and no fewer
\* connections counted (but for a host that CleanupOldEntries removes because
\* it is not configured any more).
C35_NothingLost ==
    [][\A h \in Hosts :
         (history.file[h].exists /\ ~(lastEvent' = "cleanup" /\ h \notin CurrentHosts))
            => /\ history'.file[h].exists
               /\ Entries(history.file[h].TransferHistory)
                     \subseteq Entries(history'.file[h].TransferHistory)
               /\ history'.file[h].ConnectCount >= history.file[h].ConnectCount]_vars

\* C40: on the connections a manager holds, RecordTransfer for a host leaves
\* the records of the other hosts, the host's ConnectCount (0 for a host it
\* creates) and its port forwarding as they are; RecordConnection and
\* RecordPortForwarding leave the records of the other hosts and the host's
\* transfer history as they are and add exactly one to its ConnectCount.
C40_BoundedFootprint ==
    \A m \in 1..MaxWizards : \A h \in Hosts :
        LET c == history.managers[m].Connections
            others == Hosts \ {h}
            t == RecordTransfer(c, h, "upload", LocalFile, HomeDir, Now)
            rc == RecordConnection(c, h)
        IN  ~history.managers[m].nil
              => /\ \A o \in others : t[o] = c[o]
                 /\ t[h].exists /\ t[h].TransferHistory # <<>>
                 /\ t[h].ConnectCount = c[h].ConnectCount
                 /\ ~c[h].exists => t[h].ConnectCount = 0
                 /\ t[h].PortForwarding = c[h].PortForwarding
                 /\ \A o \in others : rc[o] = c[o]
                 /\ rc[h].TransferHistory = c[h].TransferHistory
                 /\ rc[h].ConnectCount = c[h].ConnectCount + 1
                 /\ \A config \in PortForwards :
                       LET pf == RecordPortForwarding(c, h, config) IN
                       /\ \A o \in others : pf[o] = c[o]
                       /\ pf[h].TransferHistory = c[h].TransferHistory
                       /\ pf[h].ConnectCount = c[h].ConnectCount + 1

\* a manager has just recorded a transfer, and holds a host with connections
\* counted, a port forwarding and a transfer, and a host first seen through
\* a transfer
C40_Witness ==
    /\ lastEvent = "record"
    /\ \E m \in 1..MaxWizards :
          LET c == history.managers[m].Connections IN
          /\ ~history.managers[m].nil
          /\ \E h \in Hosts :
                /\ c[h].ConnectCount > 0 /\ ~c[h].PortForwarding.nil
                /\ c[h].TransferHistory # <<>>
          /\ \E h \in Hosts :
                /\ c[h].exists /\ c[h].ConnectCount = 0
                /\ c[h].TransferHistory # <<>>

(***************************************************************************)
(* Properties of a failed transfer in the wizard (Spec)                    *)
(***************************************************************************)
\* the completions of transfers that failed to start or failed while running
Failures == {msg \in Items({"quickTransferDoneMsg"}) :
                msg.err \notin {"", TransferCancelled}}

\* the step handles an item in flight (a key press handles none)
Handles(bag, after) == \E it \in BagToSet(bag) : CopiesIn(it, after) < CopiesIn(it, bag)

\* C27: when the failure of a transfer reaches the wizard that started it,
\* the wizard goes to Done with the error message as its error text, starts no
\* transfer, records nothing in the history and asks for no teardown; in
\* Done every key asks for the teardown; and a wizard showing a failure asks
\* for its teardown only in a step that is a key press.
C27_FailureShown ==
    /\ [](\A id \in 1..MaxWizards :
            /\ \A msg \in Failures :
                  LET r == WizardUpdate(id, wizards[id], msg, nextTransfer + 1) IN
                  /\ r.w = [wizards[id] EXCEPT !.state = QTStateDone, !.err = msg.err]
                  /\ r.cmd = {} /\ ~r.start /\ ~r.cancel
            /\ wizards[id].state = QTStateDone
                  => \A key \in WizardKeys :
                        UpdateWizardKey(id, wizards[id], key).cmd
                           = {quickTransferCancelMsg(id)})
    /\ [][/\ lastEvent' = "failure" => history' = history
          /\ \A id \in 1..MaxWizards :
                (/\ wizards[id].state = QTStateDone /\ wizards[id].err # ""
                 /\ CopiesIn(quickTransferCancelMsg(id), inflight')
                       > CopiesIn(quickTransferCancelMsg(id), inflight))
                   => ~Handles(inflight, inflight')]_vars

(***************************************************************************)
(* Properties of the wizard's TransferRequest (Spec)                       *)
(***************************************************************************)
\* the answers of the two pickers with a path chosen
PickedMsgs(id) ==
    {quickLocalPickedMsg(id, path, TRUE) : path \in {LocalFile, LocalDir}}
        \cup {quickRemotePickedMsg(id, path, TRUE) : path \in {HomeDir, RootDir}}

\* what Update makes of the wizard id when msg arrives now
Picked(id, msg) == WizardUpdate(id, wizards[id], msg, nextTransfer + 1)

\* C23: whenever an answer of a picker takes the wizard into Transferring,
\* the TransferRequest it starts is recursive exactly when the direction is
\* Upload and the local path is a directory, or the direction is Download and
\* the download type is folder.
C23_RecursiveFlag ==
    \A id \in 1..MaxWizards : \A msg \in PickedMsgs(id) :
        LET r == Picked(id, msg) IN
        /\ r.start = (r.w.state = QTStateTransferring)
        /\ r.start =>
              r.req.Recursive =
                 (\/ r.w.direction = Upload /\ IsDir(r.w.localPath)
                  \/ r.w.direction = Download /\ r.w.downloadType = UploadFolder)

\* C23 witness: the wizard on display is in Transferring with a recursive
\* download of a folder, and the other wizard with a non-recursive upload of
\* a file.
C23_Witness ==
    \E id, other \in 1..MaxWizards :
        LET w == wizards[id]
            v == wizards[other]
        IN  /\ w.state = QTStateTransferring /\ w.runningTransfer # 0
            /\ w.direction = Download /\ w.downloadType = UploadFolder
            /\ transfers[w.runningTransfer].req.Recursive
            /\ v.direction = Upload /\ v.runningTransfer # 0
            /\ v.localPath = LocalFile
            /\ transfers[v.runningTransfer].proc # "none"
            /\ ~transfers[v.runningTransfer].req.Recursive

\* C25: a download into a local path that is an existing directory is
\* requested with that directory joined with the base name of the remote
\* path as its local path; a download to any other local path, and every
\* upload, is requested with the local path unchanged.
C25_DownloadIntoDirectory ==
    \A id \in 1..MaxWizards : \A msg \in PickedMsgs(id) :
        LET r == Picked(id, msg) IN
        r.start =>
            r.req.LocalPath =
               IF r.w.direction = Download /\ IsDir(r.w.localPath)
               THEN r.w.localPath \o <<"/">> \o Base(r.w.remotePath)
               ELSE r.w.localPath

\* C25 witness: a download of the remote home directory /h into the local
\* directory /d is running with the local path /d/h.
C25_Witness ==
    \E id \in 1..MaxWizards :
        LET w == wizards[id] IN
        /\ w.state = QTStateTransferring /\ w.runningTransfer # 0
        /\ w.direction = Download /\ w.localPath = LocalDir /\ w.remotePath = HomeDir
        /\ transfers[w.runningTransfer].proc = "running"
        /\ transfers[w.runningTransfer].req.LocalPath = <<"/", "d", "/", "h">>

(***************************************************************************)
(* Properties of the functions applied on their own (SpecApply)            *)
(***************************************************************************)
\* the result of the function applied, once it has been applied
Applied(fn) == applied.fn = fn /\ applied.done

\* the entries of a listing other than the parent entry
Listed(files) == SelectSeq(files, LAMBDA f : f.Name # <<".", ".">>)

\* C21: ListDirectory returns the parent entry ".." first, and only then,
\* unless the path is "/"; after it every directory precedes every file,
\* and directories and files are each in case-insensitive name order; the
\* entries are the ones ls printed, "." and ".." apart.
C21_ListingOrder ==
    Applied("ListDirectory") =>
        LET files == applied.files
            rest == Listed(files)
        IN  /\ (applied.path # RootDir) =
                   (files # <<>> /\ files[1].Name = <<".", ".">>)
            /\ Len(rest) = Len(files) - (IF applied.path # RootDir THEN 1 ELSE 0)
            /\ \A i, j \in 1..Len(rest) :
                   i < j =>
                      /\ rest[i].IsDir \/ ~rest[j].IsDir
                      /\ rest[i].IsDir = rest[j].IsDir
                            => ~StrLess(ToLower(rest[j].Name), ToLower(rest[i].Name))
            /\ {[Name |-> f.Name, IsDir |-> f.IsDir] : f \in {rest[i] : i \in 1..Len(rest)}}
                  = {applied.lines[i] : i \in 3..Len(applied.lines)}
            /\ Len(rest) = Len(applied.lines) - 2

\* C21 witness: a listing outside "/" in which a file spelled with a capital
\* sorts after a directory and after a file with a lower-case name.
C21_Witness ==
    /\ Applied("ListDirectory")
    /\ applied.path = HomeDir
    /\ Len(applied.files) = 4
    /\ applied.lines[3] = [Name |-> <<"B">>, IsDir |-> FALSE]
    /\ applied.files[2].IsDir
    /\ applied.files[3].Name = <<"a">>
    /\ applied.files[4].Name = <<"B">>

\* how a name matches the query: 1 it is the query, 2 it starts with it,
\* 3 it contains it, 4 none of these (a match by the path alone), letter
\* case apart
MatchClass(query, f) ==
    LET name == ToLower(f.Name)
        q == ToLower(query)
    IN  IF name = q THEN 1
        ELSE IF HasPrefix(name, q) THEN 2
        ELSE IF Contains(name, q) THEN 3
        ELSE 4

\* the number of times x occurs in seq
Count(seq, x) == Cardinality({i \in 1..Len(seq) : seq[i] = x})

\* C22: the results accepted for a query of three characters or more are the
\* results received, ordered by match class (name equal to the query, name
\* starting with it, name containing it, path only) and, within one class,
\* by path length, shorter first.
C22_SearchRanking ==
    Applied("remoteBrowserSearchMsg") =>
        LET out == applied.b.searchFiles
        IN  /\ Len(out) = Len(applied.files)
            /\ \A i \in 1..Len(out) : Count(out, out[i]) = Count(applied.files, out[i])
            /\ \A i, j \in 1..Len(out) :
                   i < j =>
                      /\ MatchClass(applied.query, out[i]) <= MatchClass(applied.query, out[j])
                      /\ MatchClass(applied.query, out[i]) = MatchClass(applied.query, out[j])
                            => Len(out[i].Path) <= Len(out[j].Path)

\* C22 witness: a search that returned a name containing the query, then a
\* longer path whose name starts with it, then a name that is the query in
\* other letter case; the accepted order is the reverse.
C22_Witness ==
    /\ Applied("remoteBrowserSearchMsg")
    /\ applied.query = <<"A", "b", "a">>
    /\ Len(applied.files) = 3
    /\ MatchClass(applied.query, applied.files[1]) = 3
    /\ MatchClass(applied.query, applied.files[2]) = 2
    /\ MatchClass(applied.query, applied.files[3]) = 1
    /\ Len(applied.files[1].Path) < Len(applied.files[2].Path)
    /\ applied.b.searchFiles = <<applied.files[3], applied.files[2], applied.files[1]>>

\* C24: the arguments of the copy command are "-r" if the request is
\* recursive, then "-F" and the configuration file if one is set, then the
\* source and the destination: the local path and host:remotePath for an
\* upload, host:remotePath and the local path for a download.  All three
\* builders produce this list.
C24_CopyInvocation ==
    Applied("BuildSCPCommand") =>
        LET r == applied.req
            remote == r.Host \o <<":">> \o r.RemotePath
            flags == (IF r.Recursive THEN <<<<"-", "r">>>> ELSE <<>>)
                        \o (IF r.ConfigFile # <<>>
                            THEN <<<<"-", "F">>, r.ConfigFile>> ELSE <<>>)
            expected == flags \o (IF r.Direction = Upload THEN <<r.LocalPath, remote>>
                                  ELSE <<remote, r.LocalPath>>)
        IN  /\ applied.build = expected
            /\ applied.progress = expected
            /\ applied.start = expected

\* C24 witness: a recursive download with a configuration file is built as
\* -r -F c my:/h /d by all three.
C24_Witness ==
    /\ Applied("BuildSCPCommand")
    /\ applied.req.Direction = Download
    /\ applied.start = << <<"-", "r">>, <<"-", "F">>, <<"c">>,
                          <<"m", "y", ":", "/", "h">>, <<"/", "d">> >>
    /\ applied.build = applied.start
    /\ applied.progress = applied.start

\* the form's inputs are a validation error: no local path for an upload, no
\* remote path for a download, an upload of a local path that does not
\* exist, a download to a local path whose parent directory does not exist
Invalid(f) ==
    LET localPath == TrimSpace(f.localInput)
        remotePath == TrimSpace(f.remoteInput)
        expanded == ExpandPath(IF localPath = <<>> THEN <<".", "/">> ELSE localPath)
    IN  IF f.direction = Upload
        THEN localPath = <<>> \/ expanded \notin LocalExisting
        ELSE remotePath = <<>> \/ Dir(expanded) \notin LocalExisting

\* C28: a form submitted with a validation error gives a submit error and no
\* TransferRequest; no copy is run, nothing is recorded, the form stays open
\* showing the error, its inputs unchanged.
C28_ValidationError ==
    (Applied("submitForm") /\ Invalid(applied.f)) =>
        /\ applied.msg.err # "" /\ ~applied.msg.hasRequest
        /\ ~applied.r.executed /\ ~applied.r.recorded /\ ~applied.r.quit
        /\ applied.r.f = [applied.f EXCEPT !.err = applied.msg.err]

Colons(str) == {i \in 1..Len(str) : str[i] = ":"}

\* C29: ParseTransferArgs fails when both arguments hold a ":" and when
\* neither does.  Otherwise the argument with the ":" is the remote one: the
\* direction is Download exactly when it is the source, the host is its text
\* before the first ":", the remote path its text after that, and the other
\* argument is the local path; an upload of a local path that does not exist
\* fails, and an upload is recursive exactly when its local path is a
\* directory.
C29_ParseTransferArgs ==
    Applied("ParseTransferArgs") =>
        LET source == applied.source
            dest == applied.dest
            out == applied.out
            remote == IF Colons(source) # {} THEN source ELSE dest
            localPath == IF Colons(source) # {} THEN dest ELSE source
            first == CHOOSE i \in Colons(remote) : \A j \in Colons(remote) : i <= j
        IN  IF (Colons(source) # {}) = (Colons(dest) # {})
            THEN out.err # ""
            ELSE IF Colons(dest) # {} /\ localPath \notin LocalExisting
            THEN out.err # ""
            ELSE /\ out.err = ""
                 /\ (out.req.Direction = Download) = (Colons(source) # {})
                 /\ out.req.Direction \in {Upload, Download}
                 /\ out.Host = [i \in 1..(first - 1) |-> remote[i]]
                 /\ out.req.RemotePath
                       = [i \in 1..(Len(remote) - first) |-> remote[first + i]]
                 /\ out.req.LocalPath = localPath
                 /\ out.req.Direction = Upload
                       => out.req.Recursive = (localPath = LocalDir)

\* C29 witness: cp /d h:a:b is a recursive upload of /d to a:b on h.
C29_Witness ==
    /\ Applied("ParseTransferArgs")
    /\ applied.source = LocalDir
    /\ applied.dest = <<"h", ":", "a", ":", "b">>
    /\ applied.out.err = ""
    /\ applied.out.Host = <<"h">>
    /\ applied.out.req = TransferRequest(Upload, LocalDir, <<"a", ":", "b">>, TRUE)

\* str without its characters at the positions in drop
RECURSIVE Without(_, _)
Without(str, drop) ==
    IF str = <<>> THEN <<>>
    ELSE Without(SubSeq(str, 1, Len(str) - 1), drop)
            \o (IF Len(str) \in drop THEN <<>> ELSE <<str[Len(str)]>>)

\* C30: the pattern that goes into the find command holds none of the
\* characters ' " ; | & $ and backquote, and is the pattern given with the
\* occurrences of these characters, and nothing else, taken out.
C30_PatternSanitized ==
    Applied("QuickSearch") =>
        /\ \A i \in 1..Len(applied.embedded) :
              applied.embedded[i] \notin {"'", "\"", ";", "|", "&", "$", "BQ"}
        /\ applied.embedded
              = Without(applied.pattern,
                        {i \in 1..Len(applied.pattern) :
                            applied.pattern[i] \in {"'", "\"", ";", "|", "&", "$", "BQ"}})

\* C30 witness: the pattern $a; is embedded as a.
C30_Witness ==
    /\ Applied("QuickSearch")
    /\ applied.pattern = <<"$", "a", ";">>
    /\ applied.embedded = <<"a">>

====
